---- MODULE Spec2Model ----
(***************************************************************************)
(* A model of the storage core of bustub: the LRU-K replacer, the buffer   *)
(* pool manager, the page guards and the B+ tree index with its iterator.  *)
(***************************************************************************)
EXTENDS Integers, Sequences, FiniteSets, TLC

(***************************************************************************)
(* Bounds of the model.                                                    *)
(***************************************************************************)
\* number of frames of the pool (pool_size_)
PoolSize == 2
\* page ids the buffer-pool specifications may allocate: 0 .. NumPages - 1
NumPages == 3
\* largest value of LRUKReplacer::current_timestamp_ explored
MaxTimestamp == 4
\* largest pin count explored
MaxPin == 2
\* number of page-guard objects alive at a time
NumGuards == 2
\* keys of the index: 1 .. MaxKey
MaxKey == 5
\* record ids a key is inserted with: 1 .. NumValues
NumValues == 2
\* page ids the index may allocate: 1 .. MaxPageId
MaxPageId == 9
\* contents a client writes into a page: 0 .. MaxData (0 is the zeroed page)
MaxData == 1
\* pins the writing clients hold on one page at a time
MaxWriterPin == 1
\* threads that call the index concurrently: 1 .. NumThreads
NumThreads == 2
\* the keys these threads use: 1 .. MaxThreadKey
MaxThreadKey == 3
\* the page ids the index may allocate while threads run: 1 .. MaxThreadPageId
MaxThreadPageId == 4

\* policy parameter of the replacer (replacer_k)
k_ == 2

INVALID_PAGE_ID == -1
nullptr == -1

Frames == 0 .. (PoolSize - 1)
PageIds == 0 .. (NumPages - 1)
GuardIds == 1 .. NumGuards

VARIABLES
  bpm,        \* the BufferPoolManager object
  latch,      \* the reader-writer latch of every frame (Page::rwlatch_)
  guards,     \* the page guards of the clients
  raw_pins,   \* per page id, the pins clients hold that no guard owns
  ret,        \* what the last buffer-pool or guard call returned
  tree,       \* the pages of the B+ tree, its header page and the page id counter
  kv,         \* the key -> value pairs inserted and not since removed
  iter,       \* the IndexIterator of the client
  visited,    \* the keys the iterator has yielded since Begin()
  last,       \* the last B+ tree call and what it returned
  lru,        \* two LRUKReplacer objects, one of each version, given the same calls
  trail,      \* per page id, its contents at its last UnpinPage and how it left the pool
  flush,      \* where the thread that called FlushAllPages stands in its loop
  threads     \* per thread, where it stands in its call of the index and what it holds

bpm_vars == <<bpm, latch, guards, raw_pins, ret>>
tree_vars == <<tree, kv, iter, visited, last>>
lru_vars == <<lru>>
disk_vars == <<trail, flush>>
thread_vars == <<threads>>
vars == <<bpm, latch, guards, raw_pins, ret, tree, kv, iter, visited, last, lru, trail, flush,
          threads>>

(***************************************************************************)
(* LRUKReplacer (ordered-set version).  A replacer r is a record           *)
(*   node_store_ : known frame -> [history_, is_evictable_]                *)
(*   lru_less_k_, lru_k_ : sets of <<timestamp, frame>>, iterated in order *)
(*   curr_size_, current_timestamp_                                        *)
(***************************************************************************)
LRUKReplacer_Init ==
  [node_store_ |-> <<>>, lru_less_k_ |-> {}, lru_k_ |-> {},
   curr_size_ |-> 0, current_timestamp_ |-> 0]

\* std::set<std::pair<size_t, frame_id_t>> orders its elements by operator<
PairLess(a, b) == a[1] < b[1] \/ (a[1] = b[1] /\ a[2] < b[2])

\* a replacer that hands out the first frame of S, evictable or not
FirstInOrder(r, S) ==
  LET C == {e \in S : e[2] \in DOMAIN r.node_store_}
  IN IF C = {} THEN <<>>
     ELSE CHOOSE e \in C : \A o \in C : o = e \/ PairLess(e, o)

\* the first element of the ordered set S whose node is evictable, or <<>>
FirstEvictable(r, S) ==
  LET C == {e \in S : e[2] \in DOMAIN r.node_store_ /\ r.node_store_[e[2]].is_evictable_}
  IN IF C = {} THEN <<>>
     ELSE CHOOSE e \in C : \A o \in C : o = e \/ PairLess(e, o)

\* a node store that never erases a frame
ForgetNothing(store, f) == store

\* node_store_.erase(frame_id)
Forget(store, f) == [g \in (DOMAIN store) \ {f} |-> store[g]]

LRUKReplacer_Evict(r) ==
  LET a == FirstEvictable(r, r.lru_less_k_)
      b == FirstEvictable(r, r.lru_k_)
  IN IF a # <<>> THEN
       [ok |-> TRUE, frame_id |-> a[2],
        r |-> [r EXCEPT !.lru_less_k_ = @ \ {a},
                        !.node_store_ = Forget(@, a[2]),
                        !.curr_size_ = @ - 1]]
     ELSE IF b # <<>> THEN
       [ok |-> TRUE, frame_id |-> b[2],
        r |-> [r EXCEPT !.lru_k_ = @ \ {b},
                        !.node_store_ = Forget(@, b[2]),
                        !.curr_size_ = @ - 1]]
     ELSE [ok |-> FALSE, frame_id |-> nullptr, r |-> r]

LRUKReplacer_RecordAccess(r, f) ==
  LET now == r.current_timestamp_ + 1
      known == f \in DOMAIN r.node_store_
      old == IF known THEN r.node_store_[f].history_ ELSE <<>>
      ev == IF known THEN r.node_store_[f].is_evictable_ ELSE FALSE
      less1 == IF known THEN r.lru_less_k_ ELSE r.lru_less_k_ \cup {<<now, f>>}
      hist == Append(old, now)
      node(h) == [history_ |-> h, is_evictable_ |-> ev]
      store(h) == (f :> node(h)) @@ r.node_store_
  IN IF Len(hist) = k_ THEN
       [r EXCEPT !.current_timestamp_ = now,
                 !.node_store_ = store(hist),
                 !.lru_less_k_ = less1 \ {<<Head(hist), f>>},
                 !.lru_k_ = @ \cup {<<Head(hist), f>>}]
     ELSE IF Len(hist) > k_ THEN
       [r EXCEPT !.current_timestamp_ = now,
                 !.node_store_ = store(Tail(hist)),
                 !.lru_less_k_ = less1,
                 !.lru_k_ = (@ \ {<<Head(hist), f>>}) \cup {<<Head(Tail(hist)), f>>}]
     ELSE
       [r EXCEPT !.current_timestamp_ = now,
                 !.node_store_ = store(hist),
                 !.lru_less_k_ = less1]

\* a SetEvictable that flips the flag and leaves curr_size_ alone
LRUKReplacer_SetEvictableUncounted(r, f, set_evictable) ==
  IF f \notin DOMAIN r.node_store_ THEN r
  ELSE [r EXCEPT !.node_store_[f].is_evictable_ = set_evictable]

LRUKReplacer_SetEvictable(r, f, set_evictable) ==
  IF f \notin DOMAIN r.node_store_ THEN r
  ELSE IF r.node_store_[f].is_evictable_ = set_evictable THEN r
  ELSE [r EXCEPT !.curr_size_ = IF set_evictable THEN @ + 1 ELSE @ - 1,
                 !.node_store_[f].is_evictable_ = set_evictable]

\* a Remove that leaves the node of the frame in place
LRUKReplacer_RemoveKept(r, f) == [r |-> r, threw |-> FALSE]

\* threw: the call ended in the throw of line 117
LRUKReplacer_Remove(r, f) ==
  IF f \notin DOMAIN r.node_store_ THEN [r |-> r, threw |-> FALSE]
  ELSE IF ~r.node_store_[f].is_evictable_ THEN [r |-> r, threw |-> TRUE]
  ELSE LET h == r.node_store_[f].history_ IN
       [threw |-> FALSE,
        r |-> [r EXCEPT !.lru_less_k_ = IF Len(h) < k_ THEN @ \ {<<Head(h), f>>} ELSE @,
                        !.lru_k_ = IF Len(h) < k_ THEN @ ELSE @ \ {<<Head(h), f>>},
                        !.node_store_ = Forget(@, f),
                        !.curr_size_ = @ - 1]]

LRUKReplacer_Size(r) == r.curr_size_

(***************************************************************************)
(* LRUKReplacer (linear-scan version).  A replacer r is a record           *)
(*   node_store_ : known frame -> [history_, is_evictable_]                *)
(*   curr_size_, current_timestamp_                                        *)
(***************************************************************************)
\* number of frames of the replacers compared (replacer_size_)
ReplacerFrames == 3
\* largest number of RecordAccess calls made on the replacers compared
MaxAccesses == 5

\* stands for 2^64 - 1: above every timestamp
UINT64_MAX == 2147483647

ScanReplacer_Init == [node_store_ |-> <<>>, curr_size_ |-> 0, current_timestamp_ |-> 0]

\* a turn that does not reset mxtime at the first node with fewer than k
\* accesses
ScanNodeNoReset(acc, r, f) ==
  LET node == r.node_store_[f]
      front == Head(node.history_)
      inf == IF Len(node.history_) < k_ /\ ~acc.have_inf
             THEN [acc EXCEPT !.have_inf = TRUE]
             ELSE acc
      seen == [inf EXCEPT !.have_evict = TRUE]
  IN IF ~node.is_evictable_ THEN acc
     ELSE IF Len(node.history_) < k_ \/ ~acc.have_inf
     THEN IF front < seen.mxtime THEN [seen EXCEPT !.mxtime = front, !.frame_id = f]
          ELSE seen
     ELSE seen

\* one turn of the loop of Evict, on the node of frame f
ScanNode(acc, r, f) ==
  LET node == r.node_store_[f]
      front == Head(node.history_)
      inf == IF Len(node.history_) < k_ /\ ~acc.have_inf
             THEN [acc EXCEPT !.have_inf = TRUE, !.mxtime = UINT64_MAX]
             ELSE acc
      seen == [inf EXCEPT !.have_evict = TRUE]
  IN IF ~node.is_evictable_ THEN acc
     ELSE IF Len(node.history_) < k_ \/ ~acc.have_inf
     THEN IF front < seen.mxtime THEN [seen EXCEPT !.mxtime = front, !.frame_id = f]
          ELSE seen
     ELSE seen

RECURSIVE ScanNodes(_, _, _)
\* the loop of Evict over node_store_, which the map hands out in `order`
ScanNodes(acc, r, order) ==
  IF order = <<>> THEN acc
  ELSE ScanNodes(ScanNode(acc, r, Head(order)), r, Tail(order))

ScanReplacer_Evict(r, order) ==
  LET acc == ScanNodes([have_inf |-> FALSE, have_evict |-> FALSE, mxtime |-> UINT64_MAX,
                        frame_id |-> nullptr], r, order)
  IN IF acc.have_evict
     THEN [ok |-> TRUE, frame_id |-> acc.frame_id,
           r |-> [r EXCEPT !.node_store_ = Forget(@, acc.frame_id), !.curr_size_ = @ - 1]]
     ELSE [ok |-> FALSE, frame_id |-> nullptr, r |-> r]

ScanReplacer_RecordAccess(r, f) ==
  LET now == r.current_timestamp_ + 1
      known == f \in DOMAIN r.node_store_
      old == IF known THEN r.node_store_[f].history_ ELSE <<>>
      ev == IF known THEN r.node_store_[f].is_evictable_ ELSE FALSE
      hist == Append(old, now)
      kept == IF Len(hist) > k_ THEN Tail(hist) ELSE hist
  IN [r EXCEPT !.current_timestamp_ = now,
               !.node_store_ = (f :> [history_ |-> kept, is_evictable_ |-> ev]) @@ @]

ScanReplacer_SetEvictable(r, f, set_evictable) ==
  IF f \notin DOMAIN r.node_store_ THEN r
  ELSE IF r.node_store_[f].is_evictable_ = set_evictable THEN r
  ELSE [r EXCEPT !.curr_size_ = IF set_evictable THEN @ + 1 ELSE @ - 1,
                 !.node_store_[f].is_evictable_ = set_evictable]

\* called on unknown and on evictable frames only
ScanReplacer_Remove(r, f) ==
  IF f \notin DOMAIN r.node_store_ THEN r
  ELSE [r EXCEPT !.node_store_ = Forget(@, f), !.curr_size_ = @ - 1]

(***************************************************************************)
(* A client that gives one replacer of each version the same calls.  lru   *)
(* is the record                                                           *)
(*   set, scan : the ordered-set and the linear-scan replacer              *)
(*   seen : known frame -> every timestamp recorded for it since it became *)
(*          known                                                          *)
(*   op : the last call; evicted : what Evict returned, per version;       *)
(*   chosen : the timestamps seen for the frame the last Evict returned    *)
(***************************************************************************)
ReplacerFrameIds == 0 .. (ReplacerFrames - 1)

\* the orders in which an unordered map may hand out the frames of S
Orders(S) ==
  {o \in [1 .. Cardinality(S) -> S] : \A i, j \in 1 .. Cardinality(S) : o[i] = o[j] => i = j}

NotEvicted == [ok |-> FALSE, frame_id |-> nullptr]

InitReplacers ==
  lru = [set |-> LRUKReplacer_Init, scan |-> ScanReplacer_Init, seen |-> <<>>,
         op |-> "none", evicted |-> [set |-> NotEvicted, scan |-> NotEvicted],
         chosen |-> <<>>]

ReplacerRecordAccess(f) ==
  /\ lru.set.current_timestamp_ < MaxAccesses
  /\ lru' = [lru EXCEPT !.set = LRUKReplacer_RecordAccess(@, f),
                        !.scan = ScanReplacer_RecordAccess(@, f),
                        !.seen = IF f \in DOMAIN @
                                 THEN [@ EXCEPT ![f] = Append(@, lru.set.current_timestamp_ + 1)]
                                 ELSE (f :> <<lru.set.current_timestamp_ + 1>>) @@ @,
                        !.op = "RecordAccess"]
  /\ UNCHANGED <<bpm_vars, tree_vars, disk_vars, thread_vars>>

ReplacerSetEvictable(f, set_evictable) ==
  /\ lru' = [lru EXCEPT !.set = LRUKReplacer_SetEvictable(@, f, set_evictable),
                        !.scan = ScanReplacer_SetEvictable(@, f, set_evictable),
                        !.op = "SetEvictable"]
  /\ UNCHANGED <<bpm_vars, tree_vars, disk_vars, thread_vars>>

\* Remove of a known frame that is not evictable ends the program
ReplacerRemove(f) ==
  /\ f \in DOMAIN lru.set.node_store_ => lru.set.node_store_[f].is_evictable_
  /\ f \in DOMAIN lru.scan.node_store_ => lru.scan.node_store_[f].is_evictable_
  /\ lru' = [lru EXCEPT !.set = LRUKReplacer_Remove(@, f).r,
                        !.scan = ScanReplacer_Remove(@, f),
                        !.seen = Forget(@, f),
                        !.op = "Remove"]
  /\ UNCHANGED <<bpm_vars, tree_vars, disk_vars, thread_vars>>

ReplacerEvict(order) ==
  LET a == LRUKReplacer_Evict(lru.set)
      b == ScanReplacer_Evict(lru.scan, order)
  IN /\ lru' = [lru EXCEPT !.set = a.r, !.scan = b.r,
                           !.seen = IF a.ok THEN Forget(@, a.frame_id) ELSE @,
                           !.op = "Evict",
                           !.chosen = IF a.ok THEN lru.seen[a.frame_id] ELSE <<>>,
                           !.evicted = [set |-> [ok |-> a.ok, frame_id |-> a.frame_id],
                                        scan |-> [ok |-> b.ok, frame_id |-> b.frame_id]]]
     /\ UNCHANGED <<bpm_vars, tree_vars, disk_vars, thread_vars>>

NextReplacer ==
  \/ \E f \in ReplacerFrameIds : ReplacerRecordAccess(f)
  \/ \E f \in ReplacerFrameIds, set_evictable \in BOOLEAN : ReplacerSetEvictable(f, set_evictable)
  \/ \E f \in ReplacerFrameIds : ReplacerRemove(f)
  \/ \E order \in Orders(DOMAIN lru.scan.node_store_) : ReplacerEvict(order)

(***************************************************************************)
(* BufferPoolManager.  b is the record                                     *)
(*   pages_ : frame -> [page_id_, pin_count_, is_dirty_, data_]            *)
(*   page_table_ : resident page id -> frame                               *)
(*   free_list_ : sequence of frames, next_page_id_, replacer_             *)
(*   disk_manager_ : page id -> the data last written to the disk          *)
(***************************************************************************)
BufferPoolManager_Init ==
  [pages_ |-> [f \in Frames |-> [page_id_ |-> INVALID_PAGE_ID, pin_count_ |-> 0,
                                 is_dirty_ |-> FALSE, data_ |-> 0]],
   page_table_ |-> <<>>,
   free_list_ |-> [i \in 1 .. PoolSize |-> i - 1],
   next_page_id_ |-> 0,
   replacer_ |-> LRUKReplacer_Init,
   disk_manager_ |-> [p \in PageIds |-> 0]]

\* an erase that leaves the entry in the table
EraseNothing(table, p) == table

Erase(table, p) == [q \in (DOMAIN table) \ {p} |-> table[q]]

\* DiskManager::WritePage / ReadPage (a page never written reads as zeroes)
WritePage(disk, p, data) == [disk EXCEPT ![p] = data]
ReadPage(disk, p) == disk[p]

\* a pool that records the access and leaves the frame evictable
TouchKeepEvictable(r, f) == LRUKReplacer_RecordAccess(r, f)

\* replacer_->RecordAccess(frame_id); replacer_->SetEvictable(frame_id, false);
Touch(r, f) == LRUKReplacer_SetEvictable(LRUKReplacer_RecordAccess(r, f), f, FALSE)

\* a pool that reuses the frame of a dirty page without writing it
WriteBackNever(b, f) == b.disk_manager_

\* if dirty page, write back
WriteBack(b, f) ==
  IF b.pages_[f].is_dirty_
  THEN WritePage(b.disk_manager_, b.pages_[f].page_id_, b.pages_[f].data_)
  ELSE b.disk_manager_

\* how: where the frame came from ("free" list, "evict", "resident", "none")
NewPage(b) ==
  LET id == b.next_page_id_
      fresh == [page_id_ |-> id, pin_count_ |-> 1, is_dirty_ |-> FALSE, data_ |-> 0]
      ev == LRUKReplacer_Evict(b.replacer_)
  IN IF b.free_list_ # <<>> THEN
       LET f == Head(b.free_list_) IN
       [page_id |-> id, page |-> f, how |-> "free",
        bpm |-> [b EXCEPT !.next_page_id_ = id + 1,
                          !.free_list_ = Tail(@),
                          !.page_table_ = (id :> f) @@ @,
                          !.pages_[f] = fresh,
                          !.replacer_ = Touch(@, f)]]
     ELSE IF ev.ok THEN
       LET f == ev.frame_id IN
       [page_id |-> id, page |-> f, how |-> "evict",
        bpm |-> [b EXCEPT !.disk_manager_ = WriteBack(b, f),
                          !.next_page_id_ = id + 1,
                          !.page_table_ = (id :> f) @@ Erase(@, b.pages_[f].page_id_),
                          !.pages_[f] = fresh,
                          !.replacer_ = Touch(ev.r, f)]]
     ELSE [page_id |-> INVALID_PAGE_ID, page |-> nullptr, how |-> "none", bpm |-> b]

FetchPage(b, page_id) ==
  LET ev == LRUKReplacer_Evict(b.replacer_)
      read(disk) == [page_id_ |-> page_id, pin_count_ |-> 1, is_dirty_ |-> FALSE,
                     data_ |-> ReadPage(disk, page_id)]
  IN IF page_id = INVALID_PAGE_ID THEN [page |-> nullptr, how |-> "none", bpm |-> b]
     ELSE IF page_id \in DOMAIN b.page_table_ THEN
       LET f == b.page_table_[page_id] IN
       [page |-> f, how |-> "resident",
        bpm |-> [b EXCEPT !.pages_[f].pin_count_ = @ + 1,
                          !.replacer_ = Touch(@, f)]]
     ELSE IF b.free_list_ # <<>> THEN
       LET f == Head(b.free_list_) IN
       [page |-> f, how |-> "free",
        bpm |-> [b EXCEPT !.free_list_ = Tail(@),
                          !.page_table_ = (page_id :> f) @@ @,
                          !.replacer_ = Touch(@, f),
                          !.pages_[f] = read(b.disk_manager_)]]
     ELSE IF ev.ok THEN
       LET f == ev.frame_id
           disk == WriteBack(b, f)
       IN [page |-> f, how |-> "evict",
           bpm |-> [b EXCEPT !.disk_manager_ = disk,
                             !.page_table_ = (page_id :> f) @@ Erase(@, b.pages_[f].page_id_),
                             !.replacer_ = Touch(ev.r, f),
                             !.pages_[f] = read(disk)]]
     ELSE [page |-> nullptr, how |-> "none", bpm |-> b]

\* is_dirty_ = is_dirty
MarkDirtyAssigned(was_dirty, is_dirty) == is_dirty

\* is_dirty_ |= is_dirty
MarkDirty(was_dirty, is_dirty) == was_dirty \/ is_dirty

\* an UnpinPage that does not look at the pin count of a resident page
UnpinPageAnyCount(b, page_id, is_dirty) ==
  IF page_id = INVALID_PAGE_ID \/ page_id \notin DOMAIN b.page_table_
  THEN [ok |-> FALSE, bpm |-> b]
  ELSE LET f == b.page_table_[page_id]
           pin == b.pages_[f].pin_count_ - 1
       IN [ok |-> TRUE,
           bpm |-> [b EXCEPT !.pages_[f].pin_count_ = pin,
                             !.pages_[f].is_dirty_ = MarkDirty(@, is_dirty),
                             !.replacer_ = IF pin = 0
                                           THEN LRUKReplacer_SetEvictable(@, f, TRUE)
                                           ELSE @]]

UnpinPage(b, page_id, is_dirty) ==
  IF page_id = INVALID_PAGE_ID THEN [ok |-> FALSE, bpm |-> b]
  ELSE IF page_id \in DOMAIN b.page_table_
          /\ b.pages_[b.page_table_[page_id]].pin_count_ # 0 THEN
    LET f == b.page_table_[page_id]
        pin == b.pages_[f].pin_count_ - 1
    IN [ok |-> TRUE,
        bpm |-> [b EXCEPT !.pages_[f].pin_count_ = pin,
                          !.pages_[f].is_dirty_ = MarkDirty(@, is_dirty),
                          !.replacer_ = IF pin = 0
                                        THEN LRUKReplacer_SetEvictable(@, f, TRUE)
                                        ELSE @]]
  ELSE [ok |-> FALSE, bpm |-> b]

FlushPage(b, page_id) ==
  IF page_id = INVALID_PAGE_ID THEN [ok |-> FALSE, bpm |-> b]
  ELSE IF page_id \in DOMAIN b.page_table_ THEN
    LET f == b.page_table_[page_id] IN
    [ok |-> TRUE,
     bpm |-> [b EXCEPT !.disk_manager_ = WritePage(@, page_id, b.pages_[f].data_),
                       !.pages_[f].is_dirty_ = FALSE]]
  ELSE [ok |-> FALSE, bpm |-> b]

\* for (i = from; i < to; i++) FlushPage(pages_[i].page_id_);
RECURSIVE FlushFrames(_, _, _)
FlushFrames(b, from, to) ==
  IF from >= to THEN b
  ELSE FlushFrames(FlushPage(b, b.pages_[from].page_id_).bpm, from + 1, to)

\* a loop that stops one frame short of pool_size_
FlushAllButLast(b) == FlushFrames(b, 0, PoolSize - 1)

FlushAllPages(b) == FlushFrames(b, 0, PoolSize)

\* threw: replacer_->Remove threw and the exception left DeletePage at line 201
DeletePage(b, page_id) ==
  IF page_id = INVALID_PAGE_ID THEN [ok |-> FALSE, threw |-> FALSE, bpm |-> b]
  ELSE IF page_id \notin DOMAIN b.page_table_ THEN [ok |-> TRUE, threw |-> FALSE, bpm |-> b]
  ELSE LET f == b.page_table_[page_id]
           rm == LRUKReplacer_Remove(b.replacer_, f)
       IN IF b.pages_[f].pin_count_ > 0 THEN [ok |-> FALSE, threw |-> FALSE, bpm |-> b]
          ELSE IF rm.threw THEN
            [ok |-> FALSE, threw |-> TRUE,
             bpm |-> [b EXCEPT !.disk_manager_ = WriteBack(b, f)]]
          ELSE
            [ok |-> TRUE, threw |-> FALSE,
             bpm |-> [b EXCEPT !.disk_manager_ = WriteBack(b, f),
                               !.replacer_ = rm.r,
                               !.page_table_ = Erase(@, page_id),
                               !.pages_[f] = [page_id_ |-> INVALID_PAGE_ID, pin_count_ |-> 0,
                                              is_dirty_ |-> FALSE, data_ |-> 0],
                               !.free_list_ = Append(@, f)]]

(***************************************************************************)
(* Page guards.  A guard is [kind, page_, is_dirty_, pc]; page_ is the     *)
(* frame it holds or nullptr.  pc tells where its owner stands:            *)
(*   "idle"        no call in progress (page_ = nullptr: nothing is held)  *)
(*   "latching"    FetchPageRead/Write: FetchPage returned, latch not yet  *)
(*                 taken                                                   *)
(*   "unlatching"  Read/WritePageGuard::Drop: UnpinPage returned, latch    *)
(*                 not yet released                                        *)
(***************************************************************************)
NullGuard == [kind |-> "none", page_ |-> nullptr, is_dirty_ |-> FALSE, pc |-> "idle"]

NoLatch == [readers |-> 0, writer |-> FALSE]

\* Page::RLatch / WLatch can return
CanLatch(l, kind) == IF kind = "read" THEN ~l.writer ELSE ~l.writer /\ l.readers = 0

Latched(l, kind) ==
  IF kind = "read" THEN [l EXCEPT !.readers = @ + 1] ELSE [l EXCEPT !.writer = TRUE]

Unlatched(l, kind) ==
  IF kind = "read" THEN [l EXCEPT !.readers = @ - 1] ELSE [l EXCEPT !.writer = FALSE]

\* the counters stay within the bounds of the model
Within(b) ==
  /\ b.next_page_id_ <= NumPages
  /\ b.replacer_.current_timestamp_ <= MaxTimestamp
  /\ \A f \in Frames : b.pages_[f].pin_count_ <= MaxPin

Result(op, page_id, page, ok, how) ==
  [op |-> op, page_id |-> page_id, page |-> page, ok |-> ok, how |-> how]

\* a Drop that forgets the page without unpinning it
GuardUnpinSkipped(b, g) == [ok |-> TRUE, bpm |-> b]

\* bpm_->UnpinPage(page_->GetPageId(), is_dirty_)
GuardUnpin(b, g) == UnpinPage(b, b.pages_[g.page_].page_id_, g.is_dirty_)

\* the pool after its constructor, with no guard alive
InitPool ==
  /\ bpm = BufferPoolManager_Init
  /\ latch = [f \in Frames |-> NoLatch]
  /\ guards = [g \in GuardIds |-> NullGuard]
  /\ raw_pins = [p \in PageIds |-> 0]
  /\ ret = Result("none", INVALID_PAGE_ID, nullptr, TRUE, "none")

\* no page has been unpinned or has left the pool
\* no FlushAllPages is running.  i, page_id: the loop variable and the page
\* id read from pages_[i]; alone: the pool as the calls made since the
\* FlushAllPages call would have left it without the flush; could: the pool
\* as these calls would have left it with all of the flush done between two
\* of them; n counts these calls
NoFlush == [pc |-> "idle", i |-> 0, page_id |-> INVALID_PAGE_ID, alone |-> <<>>, could |-> {},
            n |-> 0]

InitTrail ==
  /\ trail = [p \in PageIds |-> [bytes |-> -1, evicted |-> FALSE]]
  /\ flush = NoFlush

\* Page *NewPage(page_id_t *page_id), called by a client
NewPageCall ==
  LET r == NewPage(bpm) IN
  /\ Within(r.bpm)
  /\ bpm' = r.bpm
  /\ ret' = Result("NewPage", r.page_id, r.page, r.page # nullptr, r.how)
  /\ UNCHANGED <<latch, guards, raw_pins, tree_vars, lru_vars, disk_vars, thread_vars>>

\* Page *FetchPage(page_id), called by a client
FetchPageCall(p) ==
  LET r == FetchPage(bpm, p) IN
  /\ Within(r.bpm)
  /\ bpm' = r.bpm
  /\ ret' = Result("FetchPage", p, r.page, r.page # nullptr, r.how)
  /\ UNCHANGED <<latch, guards, raw_pins, tree_vars, lru_vars, disk_vars, thread_vars>>

\* bool UnpinPage(page_id, is_dirty), called by a client
UnpinPageCall(p, is_dirty) ==
  LET r == UnpinPage(bpm, p, is_dirty) IN
  /\ bpm' = r.bpm
  /\ ret' = Result("UnpinPage", INVALID_PAGE_ID, nullptr, r.ok, "none")
  /\ UNCHANGED <<latch, guards, raw_pins, tree_vars, lru_vars, disk_vars, thread_vars>>

FlushPageCall(p) ==
  LET r == FlushPage(bpm, p) IN
  /\ bpm' = r.bpm
  /\ ret' = Result("FlushPage", INVALID_PAGE_ID, nullptr, r.ok, "none")
  /\ UNCHANGED <<latch, guards, raw_pins, tree_vars, lru_vars, disk_vars, thread_vars>>

DeletePageCall(p) ==
  LET r == DeletePage(bpm, p) IN
  /\ bpm' = r.bpm
  /\ ret' = Result(IF r.threw THEN "DeletePage threw" ELSE "DeletePage",
                   INVALID_PAGE_ID, nullptr, r.ok, "none")
  /\ UNCHANGED <<latch, guards, raw_pins, tree_vars, lru_vars, disk_vars, thread_vars>>

\* NewPage by a client that keeps the pin of the page it gets
NewPageOwned ==
  LET r == NewPage(bpm) IN
  /\ Within(r.bpm)
  /\ bpm' = r.bpm
  /\ raw_pins' = IF r.page = nullptr THEN raw_pins ELSE [raw_pins EXCEPT ![r.page_id] = @ + 1]
  /\ ret' = Result("NewPage", r.page_id, r.page, r.page # nullptr, r.how)
  /\ UNCHANGED <<latch, guards, tree_vars, lru_vars, disk_vars, thread_vars>>

\* UnpinPage by a client that returns a pin it took itself (never the pin of a
\* guard), or whose call fails
UnpinPageOwned(p, is_dirty) ==
  LET r == UnpinPage(bpm, p, is_dirty) IN
  /\ r.ok => raw_pins[p] > 0
  /\ bpm' = r.bpm
  /\ raw_pins' = IF r.ok THEN [raw_pins EXCEPT ![p] = @ - 1] ELSE raw_pins
  /\ ret' = Result("UnpinPage", INVALID_PAGE_ID, nullptr, r.ok, "none")
  /\ UNCHANGED <<latch, guards, tree_vars, lru_vars, disk_vars, thread_vars>>

\* BasicPageGuard FetchPageBasic(page_id): the new guard g holds the pin
FetchPageBasic(g, p) ==
  LET r == FetchPage(bpm, p) IN
  /\ guards[g] = NullGuard
  /\ Within(r.bpm)
  /\ bpm' = r.bpm
  /\ guards' = [guards EXCEPT ![g] = IF r.page = nullptr THEN NullGuard
                                     ELSE [kind |-> "basic", page_ |-> r.page,
                                           is_dirty_ |-> FALSE, pc |-> "idle"]]
  /\ ret' = Result("FetchPageBasic", p, r.page, r.page # nullptr, r.how)
  /\ UNCHANGED <<latch, raw_pins, tree_vars, lru_vars, disk_vars, thread_vars>>

\* FetchPageRead / FetchPageWrite up to the return of FetchPage
FetchPageLatched(g, p, kind) ==
  LET r == FetchPage(bpm, p) IN
  /\ guards[g] = NullGuard
  /\ Within(r.bpm)
  /\ bpm' = r.bpm
  /\ guards' = [guards EXCEPT ![g] = IF r.page = nullptr THEN NullGuard
                                     ELSE [kind |-> kind, page_ |-> r.page,
                                           is_dirty_ |-> FALSE, pc |-> "latching"]]
  /\ ret' = Result(IF kind = "read" THEN "FetchPageRead" ELSE "FetchPageWrite",
                   p, r.page, r.page # nullptr, r.how)
  /\ UNCHANGED <<latch, raw_pins, tree_vars, lru_vars, disk_vars, thread_vars>>

FetchPageRead(g, p) == FetchPageLatched(g, p, "read")

FetchPageWrite(g, p) == FetchPageLatched(g, p, "write")

\* page->RLatch() / page->WLatch() returns and the guard is constructed
Latch(g) ==
  LET f == guards[g].page_ IN
  /\ guards[g].pc = "latching"
  /\ CanLatch(latch[f], guards[g].kind)
  /\ latch' = [latch EXCEPT ![f] = Latched(@, guards[g].kind)]
  /\ guards' = [guards EXCEPT ![g].pc = "idle"]
  /\ ret' = Result("Latch", INVALID_PAGE_ID, nullptr, TRUE, "none")
  /\ UNCHANGED <<bpm, raw_pins, tree_vars, lru_vars, disk_vars, thread_vars>>

\* a guard that holds a page and whose owner is between calls
Holds(g) == guards[g].page_ # nullptr /\ guards[g].pc = "idle"

\* Drop() (also the destructor) of a guard that holds nothing
DropNull(g) ==
  /\ guards[g] = NullGuard
  /\ ret' = Result("Drop", INVALID_PAGE_ID, nullptr, FALSE, "none")
  /\ UNCHANGED <<bpm, latch, guards, raw_pins, tree_vars, lru_vars, disk_vars, thread_vars>>

\* BasicPageGuard::Drop
BasicPageGuard_Drop(g) ==
  LET r == GuardUnpin(bpm, guards[g]) IN
  /\ Holds(g) /\ guards[g].kind = "basic"
  /\ bpm' = r.bpm
  /\ guards' = [guards EXCEPT ![g] = NullGuard]
  /\ ret' = Result("Drop", INVALID_PAGE_ID, nullptr, r.ok, "none")
  /\ UNCHANGED <<latch, raw_pins, tree_vars, lru_vars, disk_vars, thread_vars>>

\* Read/WritePageGuard::Drop up to the return of UnpinPage
LatchedGuard_DropUnpin(g) ==
  LET r == GuardUnpin(bpm, guards[g]) IN
  /\ Holds(g) /\ guards[g].kind \in {"read", "write"}
  /\ bpm' = r.bpm
  /\ guards' = [guards EXCEPT ![g].pc = "unlatching"]
  /\ ret' = Result("Drop", INVALID_PAGE_ID, nullptr, r.ok, "none")
  /\ UNCHANGED <<latch, raw_pins, tree_vars, lru_vars, disk_vars, thread_vars>>

\* Read/WritePageGuard::Drop from RUnlatch / WUnlatch to its end
LatchedGuard_DropUnlatch(g) ==
  /\ guards[g].pc = "unlatching"
  /\ latch' = [latch EXCEPT ![guards[g].page_] = Unlatched(@, guards[g].kind)]
  /\ guards' = [guards EXCEPT ![g] = NullGuard]
  /\ ret' = Result("Unlatch", INVALID_PAGE_ID, nullptr, TRUE, "none")
  /\ UNCHANGED <<bpm, raw_pins, tree_vars, lru_vars, disk_vars, thread_vars>>

\* the whole of Drop() on guard g, as the move operations run it
DropAll(b, l, g) ==
  IF g.page_ = nullptr THEN [bpm |-> b, latch |-> l]
  ELSE [bpm |-> GuardUnpin(b, g).bpm,
        latch |-> IF g.kind = "basic" THEN l
                  ELSE [l EXCEPT ![g.page_] = Unlatched(@, g.kind)]]

\* a move that leaves the source guard as it was
MovedFromKept(that) == that

\* what the move leaves in the guard moved from (that.page_ = nullptr)
MovedFrom(that) == NullGuard

\* Guard(Guard &&that): dst is the guard under construction
MoveConstruct(dst, src) ==
  LET d == DropAll(bpm, latch, guards[dst]) IN
  /\ dst # src
  /\ guards[dst] = NullGuard
  /\ guards[src].pc = "idle"
  /\ bpm' = d.bpm
  /\ latch' = d.latch
  /\ guards' = [guards EXCEPT ![dst] = guards[src], ![src] = MovedFrom(guards[src])]
  /\ ret' = Result("MoveConstruct", INVALID_PAGE_ID, nullptr, guards[src].page_ # nullptr, "none")
  /\ UNCHANGED <<raw_pins, tree_vars, lru_vars, disk_vars, thread_vars>>

\* Guard &operator=(Guard &&that): dst = std::move(src), guards of one class
MoveAssign(dst, src) ==
  LET d == DropAll(bpm, latch, guards[dst])
      cleared == [guards EXCEPT ![dst] = NullGuard]
  IN
  /\ guards[dst].pc = "idle" /\ guards[src].pc = "idle"
  /\ guards[dst].kind = guards[src].kind \/ "none" \in {guards[dst].kind, guards[src].kind}
  /\ bpm' = d.bpm
  /\ latch' = d.latch
  /\ guards' = [[cleared EXCEPT ![dst] = cleared[src]] EXCEPT ![src] = MovedFrom(cleared[src])]
  /\ ret' = Result("MoveAssign", INVALID_PAGE_ID, nullptr, guards[dst].page_ # nullptr, "none")
  /\ UNCHANGED <<raw_pins, tree_vars, lru_vars, disk_vars, thread_vars>>

\* calls on the buffer pool alone, by clients that may unpin any page
NextBPM ==
  \/ NewPageCall
  \/ \E p \in PageIds \cup {INVALID_PAGE_ID} :
       \/ FetchPageCall(p)
       \/ \E d \in BOOLEAN : UnpinPageCall(p, d)
       \/ FlushPageCall(p)
       \/ DeletePageCall(p)

\* a page id NewPage has handed out (AllocatePage), or INVALID_PAGE_ID
Allocated(p) == p < bpm.next_page_id_

\* clients that hold pages through guards, return only the pins they took and
\* fetch only page ids that NewPage has handed out
NextGuard ==
  \/ NewPageOwned
  \/ \E p \in {q \in PageIds \cup {INVALID_PAGE_ID} : Allocated(q)} :
       \/ \E d \in BOOLEAN : UnpinPageOwned(p, d)
       \/ \E g \in GuardIds :
            \/ FetchPageBasic(g, p)
            \/ FetchPageRead(g, p)
            \/ FetchPageWrite(g, p)
  \/ \E g \in GuardIds :
       \/ Latch(g)
       \/ DropNull(g)
       \/ BasicPageGuard_Drop(g)
       \/ LatchedGuard_DropUnpin(g)
       \/ LatchedGuard_DropUnlatch(g)
       \/ \E src \in GuardIds : MoveConstruct(g, src) \/ MoveAssign(g, src)

(***************************************************************************)
(* Properties of the buffer pool and the page guards.                      *)
(***************************************************************************)
\* the guards that own a pin of frame f
GuardPins(f) ==
  Cardinality({g \in GuardIds : guards[g].page_ = f /\ guards[g].pc # "unlatching"})

Resident(p) == p \in DOMAIN bpm.page_table_

PinCount(b, f) == b.pages_[f].pin_count_

\* every pin of a frame is the pin of one guard or of one client
PinBalance ==
  /\ \A f \in Frames :
       PinCount(bpm, f) = GuardPins(f)
                          + (IF bpm.pages_[f].page_id_ = INVALID_PAGE_ID THEN 0
                             ELSE raw_pins[bpm.pages_[f].page_id_])
  /\ \A p \in PageIds : ~Resident(p) => raw_pins[p] = 0

GuardFetch(g, p) == FetchPageBasic(g, p) \/ FetchPageRead(g, p) \/ FetchPageWrite(g, p)

GuardDrop(g) == BasicPageGuard_Drop(g) \/ LatchedGuard_DropUnpin(g)

C1_Step ==
  /\ \A g \in GuardIds, p \in PageIds :
       Resident(p) /\ GuardFetch(g, p) =>
         LET f == bpm.page_table_[p] IN
         /\ guards'[g].page_ = f
         /\ bpm'.pages_[f].page_id_ = p
         /\ PinCount(bpm', f) = PinCount(bpm, f) + 1
         /\ \A o \in Frames \ {f} : PinCount(bpm', o) = PinCount(bpm, o)
  /\ \A g \in GuardIds :
       GuardDrop(g) =>
         LET f == guards[g].page_ IN
         /\ PinCount(bpm', f) = PinCount(bpm, f) - 1
         /\ \A o \in Frames \ {f} : PinCount(bpm', o) = PinCount(bpm, o)

\* C1: a guard fetch of a resident page raises the pin count of its frame by
\* exactly 1 and the drop of that guard lowers it by exactly 1, so that the pin
\* count of a frame is always the number of live guards on it plus the pins the
\* clients took themselves (0 once every guard is dropped and nothing else pins
\* the page).
C1_PinBalance == []PinBalance /\ [][C1_Step]_vars

\* a guard was fetched on a page a client keeps pinned and dropped again: the
\* pin count is back at the client's one pin
C1_Witness ==
  /\ ret.op = "Drop" /\ ret.ok
  /\ \A g \in GuardIds : guards[g] = NullGuard
  /\ \E f \in Frames :
       /\ bpm.pages_[f].page_id_ # INVALID_PAGE_ID
       /\ raw_pins[bpm.pages_[f].page_id_] = 1
       /\ PinCount(bpm, f) = 1
       /\ Len(bpm.replacer_.node_store_[f].history_) >= 2

\* Drop() of guard g in the state after the step releases nothing
DropIsNoOp(g) == DropAll(bpm', latch', guards'[g]) = [bpm |-> bpm', latch |-> latch']

C2_Step ==
  /\ \A dst, src \in GuardIds :
       MoveConstruct(dst, src) =>
         /\ \A f \in Frames : PinCount(bpm', f) = PinCount(bpm, f)
         /\ guards'[dst] = guards[src]
         /\ DropIsNoOp(src)
         /\ PinBalance'
  /\ \A dst, src \in GuardIds :
       dst # src /\ MoveAssign(dst, src) =>
         /\ \A f \in Frames :
              PinCount(bpm', f) = PinCount(bpm, f) - (IF guards[dst].page_ = f THEN 1 ELSE 0)
         /\ guards'[dst] = guards[src]
         /\ DropIsNoOp(src)
         /\ PinBalance'

\* C2: a move construction changes no pin count and a later Drop of the guard
\* moved from releases nothing; a move assignment lowers the pin count of the
\* frame the target held by exactly 1, the target then holds what the source
\* held, and every pin still belongs to exactly one guard or client.
C2_MoveKeepsPins == [][C2_Step]_vars

\* a guard that held a page was move-assigned the page of another guard
C2_Witness ==
  /\ ret.op = "MoveAssign" /\ ret.ok
  /\ \E g \in GuardIds : guards[g].page_ # nullptr
  /\ \E g \in GuardIds : guards[g] = NullGuard

\* every frame holds a page with pin count > 0
AllPinned ==
  \A f \in Frames : bpm.pages_[f].page_id_ # INVALID_PAGE_ID /\ PinCount(bpm, f) > 0

C3_Step ==
  AllPinned =>
    /\ ret'.op = "NewPage" =>
         ret'.page = nullptr /\ ret'.page_id = INVALID_PAGE_ID /\ bpm' = bpm
    /\ ret'.op = "FetchPage" /\ ~Resident(ret'.page_id) =>
         ret'.page = nullptr /\ bpm' = bpm

\* the calls return (they are enabled) although no frame can be had
C3_Returns ==
  /\ ENABLED NewPageCall
  /\ \A p \in PageIds : ~Resident(p) => ENABLED FetchPageCall(p)

\* C3: when every frame holds a pinned page, NewPage returns nullptr with the
\* page id INVALID_PAGE_ID and FetchPage of a non-resident page returns nullptr;
\* both calls return, and they leave the whole pool (page table, free list, pin
\* counts, replacer, next page id) as it was.
C3_Exhaustion == [](AllPinned => C3_Returns) /\ [][C3_Step]_vars

\* NewPage has just failed on a pool whose frames are all pinned
C3_Witness == AllPinned /\ ret.op = "NewPage" /\ ret.page = nullptr

EvictionSafety ==
  LET e == LRUKReplacer_Evict(bpm.replacer_) IN
  /\ e.ok => PinCount(bpm, e.frame_id) = 0
  /\ \A f \in DOMAIN bpm.replacer_.node_store_ :
       bpm.replacer_.node_store_[f].is_evictable_ => PinCount(bpm, f) = 0

\* a frame whose page is pinned holds the same page after the step
PinnedStays ==
  \A f \in Frames :
    PinCount(bpm, f) > 0 => bpm'.pages_[f].page_id_ = bpm.pages_[f].page_id_

\* C4: in every reachable state of the pool the frame the replacer's Evict
\* would return has pin count 0 (no evictable frame is pinned), and no step
\* gives the frame of a pinned page to another page.
C4_EvictionSafety == []EvictionSafety /\ [][PinnedStays]_vars

\* a call has just evicted a page while the other frame was pinned
C4_Witness ==
  /\ ret.how = "evict"
  /\ \E f \in Frames : f # ret.page /\ PinCount(bpm, f) > 0 /\ bpm.pages_[f].page_id_ < ret.page_id


(***************************************************************************)
(* B+ tree pages.  A page is the record                                    *)
(*   page_type_ : "leaf" or "internal", max_size_                          *)
(*   array_ : the first size_ slots of the array, each <<key, value>>      *)
(*   next_page_id_ : the next leaf (leaf pages)                            *)
(* so that size_ is Len(array_).                                           *)
(***************************************************************************)
Keys == 1 .. MaxKey
Values == 1 .. NumValues

\* the page the index keeps its root page id in
HEADER_PAGE_ID == 0

LeafPage_Init(max_size) ==
  [page_type_ |-> "leaf", max_size_ |-> max_size, array_ |-> <<>>,
   next_page_id_ |-> INVALID_PAGE_ID]

InternalPage_Init(max_size) ==
  [page_type_ |-> "internal", max_size_ |-> max_size, array_ |-> <<>>,
   next_page_id_ |-> INVALID_PAGE_ID]

IsLeafPage(n) == n.page_type_ = "leaf"
GetSize(n) == Len(n.array_)
GetMaxSize(n) == n.max_size_
GetMinSize(n) == (n.max_size_ + 1) \div 2

KeyAt(n, index) == n.array_[index + 1][1]
ValueAt(n, index) == n.array_[index + 1][2]
\* a SetKeyAt that writes nothing
SetKeyAtSkipped(n, index, key) == n

SetKeyAt(n, index, key) == [n EXCEPT !.array_[index + 1][1] = key]

\* the slot the insertion loop stops at: the largest id in 0 .. size with
\* id = 0 or key > KeyAt(id - 1)
InsertSlot(array, key) ==
  LET S == {id \in 0 .. Len(array) : id = 0 \/ key > array[id][1]}
  IN CHOOSE id \in S : \A o \in S : o <= id

ArrayInsert(array, key, value) ==
  LET id == InsertSlot(array, key)
  IN SubSeq(array, 1, id) \o <<<<key, value>>>> \o SubSeq(array, id + 1, Len(array))

\* the array without slot index (counted from 0)
ArrayRemove(array, index) ==
  SubSeq(array, 1, index) \o SubSeq(array, index + 2, Len(array))

\* a lookup that also stops where key = KeyAt(id + 1)
LookupSlotInclusive(array, key) ==
  LET S == {id \in 0 .. Len(array) - 1 : id = Len(array) - 1 \/ key <= array[id + 2][1]}
  IN CHOOSE id \in S : \A o \in S : id <= o

\* the slot a lookup of key ends at: the first id with id = size - 1 or
\* key < KeyAt(id + 1)
LookupSlot(array, key) ==
  LET S == {id \in 0 .. Len(array) - 1 : id = Len(array) - 1 \/ key < array[id + 2][1]}
  IN CHOOSE id \in S : \A o \in S : id <= o

NoValue == 0

Leaf_GetValue(n, key) ==
  IF GetSize(n) = 0 THEN [found |-> FALSE, value |-> NoValue]
  ELSE LET id == LookupSlot(n.array_, key)
       IN IF KeyAt(n, id) = key THEN [found |-> TRUE, value |-> ValueAt(n, id)]
          ELSE [found |-> FALSE, value |-> NoValue]

\* an Insert without the loop that looks for the key
Leaf_InsertUnchecked(n, key, value) ==
  [ok |-> TRUE, page |-> [n EXCEPT !.array_ = ArrayInsert(@, key, value)]]

Leaf_Insert(n, key, value) ==
  IF \E id \in 0 .. GetSize(n) - 1 : KeyAt(n, id) = key
  THEN [ok |-> FALSE, page |-> n]
  ELSE [ok |-> TRUE, page |-> [n EXCEPT !.array_ = ArrayInsert(@, key, value)]]

Leaf_GetIndexByKey(n, key) ==
  LET S == {id \in 0 .. GetSize(n) - 1 : KeyAt(n, id) = key}
  IN IF S = {} THEN -1 ELSE CHOOSE id \in S : \A o \in S : id <= o

Leaf_Remove(n, key) ==
  LET id == Leaf_GetIndexByKey(n, key)
  IN IF id = -1 THEN n ELSE [n EXCEPT !.array_ = ArrayRemove(@, id)]

Internal_Insert(n, key, value) == [n EXCEPT !.array_ = ArrayInsert(@, key, value)]

\* a Remove that leaves the slot in the page
Internal_RemoveNothing(n, index) == n

\* an index outside 0 .. size - 1 moves nothing and still does SetSize(size - 1)
Internal_Remove(n, index) ==
  IF index \in 0 .. GetSize(n) - 1 THEN [n EXCEPT !.array_ = ArrayRemove(@, index)]
  ELSE [n EXCEPT !.array_ = SubSeq(@, 1, Len(@) - 1)]

\* a Split that keeps one entry more of a page of even size
SplitAfterHalf(n) ==
  LET size == GetSize(n)
      offset == (size + 2) \div 2
  IN [left |-> SubSeq(n.array_, 1, offset), right |-> SubSeq(n.array_, offset + 1, size)]

\* Split of a leaf or an internal page: what stays and what moves to `that`
Split(n) ==
  LET size == GetSize(n)
      offset == (size + 1) \div 2
  IN [left |-> SubSeq(n.array_, 1, offset), right |-> SubSeq(n.array_, offset + 1, size)]

RECURSIVE Leaf_InsertAll(_, _)
\* the loop of Merge that inserts every record of the right page
Leaf_InsertAll(n, records) ==
  IF records = <<>> THEN n
  ELSE Leaf_InsertAll(Leaf_Insert(n, Head(records)[1], Head(records)[2]).page, Tail(records))

RECURSIVE Internal_InsertAll(_, _)
Internal_InsertAll(n, records) ==
  IF records = <<>> THEN n
  ELSE Internal_InsertAll(Internal_Insert(n, Head(records)[1], Head(records)[2]), Tail(records))

\* r_key is not set by a merge that empties the right page
Unset == 0

\* a Merge that leaves the next page id of the left page as it was
Leaf_MergeUnspliced(l, r) ==
  IF GetSize(l) > GetMinSize(l) THEN
    LET key == KeyAt(l, GetSize(l) - 1)
        l2 == Leaf_Remove(l, key)
        r2 == Leaf_Insert(r, key, ValueAt(l, GetSize(l) - 1)).page
    IN [left |-> l2, right |-> r2, l_key |-> KeyAt(l2, 0), r_key |-> KeyAt(r2, 0),
        remove |-> FALSE]
  ELSE IF GetSize(r) > GetMinSize(r) THEN
    LET key == KeyAt(r, 0)
        r2 == Leaf_Remove(r, key)
        l2 == Leaf_Insert(l, key, ValueAt(r, 0)).page
    IN [left |-> l2, right |-> r2, l_key |-> KeyAt(l2, 0), r_key |-> KeyAt(r2, 0),
        remove |-> FALSE]
  ELSE
    LET l2 == Leaf_InsertAll(l, r.array_)
    IN [left |-> l2, right |-> [r EXCEPT !.array_ = <<>>], l_key |-> KeyAt(l2, 0),
        r_key |-> Unset, remove |-> TRUE]

Leaf_Merge(l, r) ==
  IF GetSize(l) > GetMinSize(l) THEN
    LET key == KeyAt(l, GetSize(l) - 1)
        l2 == Leaf_Remove(l, key)
        r2 == Leaf_Insert(r, key, ValueAt(l, GetSize(l) - 1)).page
    IN [left |-> l2, right |-> r2, l_key |-> KeyAt(l2, 0), r_key |-> KeyAt(r2, 0),
        remove |-> FALSE]
  ELSE IF GetSize(r) > GetMinSize(r) THEN
    LET key == KeyAt(r, 0)
        r2 == Leaf_Remove(r, key)
        l2 == Leaf_Insert(l, key, ValueAt(r, 0)).page
    IN [left |-> l2, right |-> r2, l_key |-> KeyAt(l2, 0), r_key |-> KeyAt(r2, 0),
        remove |-> FALSE]
  ELSE
    LET l2 == [Leaf_InsertAll(l, r.array_) EXCEPT !.next_page_id_ = r.next_page_id_]
    IN [left |-> l2, right |-> [r EXCEPT !.array_ = <<>>], l_key |-> KeyAt(l2, 0),
        r_key |-> Unset, remove |-> TRUE]

Internal_Merge(l, r) ==
  IF GetSize(l) > GetMinSize(l) THEN
    LET index == GetSize(l) - 1
        l2 == Internal_Remove(l, index)
        r2 == Internal_Insert(r, KeyAt(l, index), ValueAt(l, index))
    IN [left |-> l2, right |-> r2, l_key |-> KeyAt(l2, 0), r_key |-> KeyAt(r2, 0),
        remove |-> FALSE]
  ELSE IF GetSize(r) > GetMinSize(r) THEN
    LET r2 == Internal_Remove(r, 0)
        l2 == Internal_Insert(l, KeyAt(r, 0), ValueAt(r, 0))
    IN [left |-> l2, right |-> r2, l_key |-> KeyAt(l2, 0), r_key |-> KeyAt(r2, 0),
        remove |-> FALSE]
  ELSE
    LET l2 == Internal_InsertAll(l, r.array_)
    IN [left |-> l2, right |-> [r EXCEPT !.array_ = <<>>], l_key |-> KeyAt(l2, 0),
        r_key |-> Unset, remove |-> TRUE]

(***************************************************************************)
(* BPlusTree.  t is the record                                             *)
(*   leaf_max_size_, internal_max_size_                                    *)
(*   root_page_id_ : the field of the header page                          *)
(*   pages : page id -> page, the pages NewLeafPage / NewInternalPage made *)
(*   next_page_id_ : the id the next NewPage of the pool returns           *)
(* One thread runs the calls and the pool has a frame for every page, so   *)
(* every fetch succeeds and a call leaves no page pinned or latched.       *)
(* A Context is [pages, write_set_, index_, header_page_, hang]:           *)
(* write_set_ the page ids of the write guards held, header_page_ whether  *)
(* the guard of the header page is still held, pages the pages as written  *)
(* so far, hang whether the descent loops for ever on an internal page of  *)
(* size 0.                                                                 *)
(***************************************************************************)
BPlusTree_Init(leaf_max_size, internal_max_size) ==
  [leaf_max_size_ |-> leaf_max_size, internal_max_size_ |-> internal_max_size,
   root_page_id_ |-> INVALID_PAGE_ID, pages |-> <<>>,
   next_page_id_ |-> HEADER_PAGE_ID + 1]

IsEmpty(t) == t.root_page_id_ = INVALID_PAGE_ID

Back(seq) == seq[Len(seq)]
PopBack(seq) == SubSeq(seq, 1, Len(seq) - 1)

RECURSIVE FindLeafFrom(_, _, _)
\* the loop of FindLeaf: the leaf the descent from page_id ends at
\* (INVALID_PAGE_ID: the loop never ends, an internal page has size 0)
FindLeafFrom(t, page_id, key) ==
  LET page == t.pages[page_id] IN
  IF IsLeafPage(page) THEN page_id
  ELSE IF GetSize(page) = 0 THEN INVALID_PAGE_ID
  ELSE FindLeafFrom(t, ValueAt(page, LookupSlot(page.array_, key)), key)

FindLeaf(t, key) == FindLeafFrom(t, t.root_page_id_, key)

RECURSIVE FindLeftMostLeafFrom(_, _)
FindLeftMostLeafFrom(t, page_id) ==
  LET page == t.pages[page_id] IN
  IF IsLeafPage(page) THEN page_id
  ELSE FindLeftMostLeafFrom(t, ValueAt(page, 0))

FindLeftMostLeaf(t) ==
  IF IsEmpty(t) THEN INVALID_PAGE_ID ELSE FindLeftMostLeafFrom(t, t.root_page_id_)

\* hang: the read descent never returns
BPlusTree_GetValue(t, key) ==
  IF IsEmpty(t) THEN [found |-> FALSE, value |-> NoValue, hang |-> FALSE]
  ELSE LET leaf == FindLeaf(t, key) IN
       IF leaf = INVALID_PAGE_ID THEN [found |-> FALSE, value |-> NoValue, hang |-> TRUE]
       ELSE [found |-> Leaf_GetValue(t.pages[leaf], key).found,
             value |-> Leaf_GetValue(t.pages[leaf], key).value, hang |-> FALSE]

\* the sibling FindLeafMut records when it follows slot id of page
SiblingHint(page, id) ==
  IF id = GetSize(page) - 1
  THEN [bro_page_id |-> IF id = 0 THEN INVALID_PAGE_ID ELSE ValueAt(page, id - 1),
        self_index |-> id, right_bro |-> FALSE]
  ELSE [bro_page_id |-> ValueAt(page, id + 1), self_index |-> id, right_bro |-> TRUE]

RECURSIVE FindLeafMutFrom(_, _, _, _)
FindLeafMutFrom(ctx, page_id, key, remove_flag) ==
  LET page == ctx.pages[page_id]
      pushed == [ctx EXCEPT !.write_set_ = Append(@, page_id)]
  IN IF IsLeafPage(page) THEN pushed
     ELSE IF GetSize(page) = 0 THEN [pushed EXCEPT !.hang = TRUE]
     ELSE
       LET size == GetSize(page)
           written == IF ~remove_flag /\ KeyAt(page, 0) > key
                      THEN SetKeyAt(page, 0, key) ELSE page
           safe == IF remove_flag THEN size > GetMinSize(page)
                   ELSE size + 1 < GetMaxSize(page)
           id == LookupSlot(page.array_, key)
       IN FindLeafMutFrom(
            [pushed EXCEPT !.pages[page_id] = written,
                           !.header_page_ = @ /\ ~safe,
                           !.write_set_ = IF safe THEN <<page_id>> ELSE @,
                           !.index_ = IF remove_flag THEN Append(@, SiblingHint(page, id))
                                      ELSE @],
            ValueAt(page, id), key, remove_flag)

FindLeafMut(t, key, remove_flag) ==
  LET ctx == [pages |-> t.pages, write_set_ |-> <<>>, header_page_ |-> TRUE, hang |-> FALSE,
              index_ |-> <<[bro_page_id |-> INVALID_PAGE_ID, self_index |-> 0,
                            right_bro |-> FALSE]>>]
  IN IF t.root_page_id_ = INVALID_PAGE_ID THEN ctx
     ELSE FindLeafMutFrom(ctx, t.root_page_id_, key, remove_flag)

\* bpm_->NewPage(&page_id) and Init of the new page
NewLeafPage(t) ==
  [page_id |-> t.next_page_id_,
   tree |-> [t EXCEPT !.pages = (t.next_page_id_ :> LeafPage_Init(t.leaf_max_size_)) @@ @,
                      !.next_page_id_ = @ + 1]]

NewInternalPage(t) ==
  [page_id |-> t.next_page_id_,
   tree |-> [t EXCEPT !.pages = (t.next_page_id_ :> InternalPage_Init(t.internal_max_size_ + 1)) @@ @,
                      !.next_page_id_ = @ + 1]]

\* a SplitLeaf that leaves the next page id of the old leaf as it was
SplitLeafUnlinked(t, leaf_id) ==
  LET new == NewLeafPage(t)
      leaf == t.pages[leaf_id]
      halves == Split(leaf)
  IN [split_page_id |-> new.page_id,
      split_key |-> halves.right[1][1],
      tree |-> [new.tree EXCEPT
                  !.pages[new.page_id].array_ = halves.right,
                  !.pages[new.page_id].next_page_id_ = leaf.next_page_id_,
                  !.pages[leaf_id].array_ = halves.left]]

\* SplitLeaf(leaf_page, split_key, split_page_id) on the leaf with id leaf_id
SplitLeaf(t, leaf_id) ==
  LET new == NewLeafPage(t)
      leaf == t.pages[leaf_id]
      halves == Split(leaf)
  IN [split_page_id |-> new.page_id,
      split_key |-> halves.right[1][1],
      tree |-> [new.tree EXCEPT
                  !.pages[new.page_id].array_ = halves.right,
                  !.pages[new.page_id].next_page_id_ = leaf.next_page_id_,
                  !.pages[leaf_id].array_ = halves.left,
                  !.pages[leaf_id].next_page_id_ = new.page_id]]

SplitInternal(t, internal_id) ==
  LET new == NewInternalPage(t)
      halves == Split(t.pages[internal_id])
  IN [split_page_id |-> new.page_id,
      split_key |-> halves.right[1][1],
      tree |-> [new.tree EXCEPT !.pages[new.page_id].array_ = halves.right,
                                !.pages[internal_id].array_ = halves.left]]

RECURSIVE SplitUp(_, _, _, _, _, _, _)
\* the while loop of Split and the new root after it.  fault: the header page
\* guard was dropped before SetRootPageId uses it
SplitUp(t, write_set, header_page, split_key, split_page_id, last_key, last_page_id) ==
  IF write_set = <<>> THEN
    LET new == NewInternalPage(t)
        root == Internal_Insert(Internal_Insert(new.tree.pages[new.page_id],
                                                last_key, last_page_id),
                                split_key, split_page_id)
    IN [fault |-> ~header_page,
        tree |-> [new.tree EXCEPT !.root_page_id_ = IF header_page THEN new.page_id ELSE @,
                                  !.pages[new.page_id] = root]]
  ELSE
    LET id == Back(write_set)
        last_page == Internal_Insert(t.pages[id], split_key, split_page_id)
        inserted == [t EXCEPT !.pages[id] = last_page]
        split == SplitInternal(inserted, id)
    IN IF GetSize(last_page) < GetMaxSize(last_page)
       THEN [fault |-> FALSE, tree |-> inserted]
       ELSE SplitUp(split.tree, PopBack(write_set), header_page,
                    split.split_key, split.split_page_id, KeyAt(last_page, 0), id)

\* a Split that returns while the leaf holds no more than GetMaxSize() records
BPlusTree_SplitLate(t, ctx) ==
  LET leaf_id == Back(ctx.write_set_)
      leaf_page == t.pages[leaf_id]
      split == SplitLeaf(t, leaf_id)
  IN IF GetSize(leaf_page) <= GetMaxSize(leaf_page) THEN [fault |-> FALSE, tree |-> t]
     ELSE SplitUp(split.tree, PopBack(ctx.write_set_), ctx.header_page_,
                  split.split_key, split.split_page_id,
                  KeyAt(split.tree.pages[leaf_id], 0), leaf_id)

\* Split(insert_key, ctx) on the tree t whose pages are those of ctx
BPlusTree_Split(t, ctx) ==
  LET leaf_id == Back(ctx.write_set_)
      leaf_page == t.pages[leaf_id]
      split == SplitLeaf(t, leaf_id)
  IN IF GetSize(leaf_page) < GetMaxSize(leaf_page) THEN [fault |-> FALSE, tree |-> t]
     ELSE SplitUp(split.tree, PopBack(ctx.write_set_), ctx.header_page_,
                  split.split_key, split.split_page_id,
                  KeyAt(split.tree.pages[leaf_id], 0), leaf_id)

\* the new tree of Insert when root_page_id_ is INVALID_PAGE_ID
WithRoot(t) ==
  IF t.root_page_id_ = INVALID_PAGE_ID
  THEN [NewLeafPage(t).tree EXCEPT !.root_page_id_ = NewLeafPage(t).page_id]
  ELSE t

\* hang: FindLeafMut never returns; fault: a null header guard is used
BPlusTree_Insert(t, key, value) ==
  LET rooted == WithRoot(t)
      ctx == FindLeafMut(rooted, key, FALSE)
      found == [rooted EXCEPT !.pages = ctx.pages]
      leaf_id == Back(ctx.write_set_)
      ins == Leaf_Insert(found.pages[leaf_id], key, value)
      split == BPlusTree_Split([found EXCEPT !.pages[leaf_id] = ins.page], ctx)
  IN IF ctx.hang THEN [ok |-> FALSE, hang |-> TRUE, fault |-> FALSE, tree |-> found]
     ELSE IF ~ins.ok THEN [ok |-> FALSE, hang |-> FALSE, fault |-> FALSE, tree |-> found]
     ELSE [ok |-> TRUE, hang |-> FALSE, fault |-> split.fault, tree |-> split.tree]

RECURSIVE Internal_RemoveAll(_, _)
\* for (auto id : delete_record) last_page->Remove(id)
Internal_RemoveAll(n, delete_record) ==
  IF delete_record = <<>> THEN n
  ELSE Internal_RemoveAll(Internal_Remove(n, Head(delete_record)), Tail(delete_record))

\* records that delete the left slot before the right one
RecordsLeftFirst(m, l_page_id, r_page_id, l_index, r_index) ==
  [delete_record |-> <<l_index, r_index>>,
   insert_record |-> IF m.remove THEN <<<<m.l_key, l_page_id>>>>
                     ELSE <<<<m.l_key, l_page_id>>, <<m.r_key, r_page_id>>>>]

\* what a merge or a borrow of the pages l_page_id and r_page_id leaves for
\* the parent: the slots to delete and the records to insert
Records(m, l_page_id, r_page_id, l_index, r_index) ==
  [delete_record |-> <<r_index, l_index>>,
   insert_record |-> IF m.remove THEN <<<<m.l_key, l_page_id>>>>
                     ELSE <<<<m.l_key, l_page_id>>, <<m.r_key, r_page_id>>>>]

\* done: the leaf has not underflowed and Merge returns
MergeLeaf(t, ctx) ==
  LET leaf_id == Back(ctx.write_set_)
      leaf_page == t.pages[leaf_id]
      hint == Back(ctx.index_)
      l_page_id == IF hint.right_bro THEN leaf_id ELSE hint.bro_page_id
      r_page_id == IF hint.right_bro THEN hint.bro_page_id ELSE leaf_id
      l_index == IF hint.right_bro THEN hint.self_index ELSE hint.self_index - 1
      m == Leaf_Merge(t.pages[l_page_id], t.pages[r_page_id])
      rec == Records(m, l_page_id, r_page_id, l_index, l_index + 1)
  IN IF GetSize(leaf_page) >= GetMinSize(leaf_page) THEN
       [done |-> TRUE, tree |-> t, write_set_ |-> ctx.write_set_, index_ |-> ctx.index_,
        insert_record |-> <<>>, delete_record |-> <<>>]
     ELSE IF hint.bro_page_id # INVALID_PAGE_ID THEN
       [done |-> FALSE,
        tree |-> [t EXCEPT !.pages[l_page_id] = m.left, !.pages[r_page_id] = m.right],
        write_set_ |-> PopBack(ctx.write_set_), index_ |-> PopBack(ctx.index_),
        insert_record |-> rec.insert_record, delete_record |-> rec.delete_record]
     ELSE
       [done |-> FALSE, tree |-> t,
        write_set_ |-> PopBack(ctx.write_set_), index_ |-> PopBack(ctx.index_),
        insert_record |-> IF GetSize(leaf_page) = 0 THEN <<>>
                          ELSE <<<<KeyAt(leaf_page, 0), leaf_id>>>>,
        delete_record |-> <<0>>]

\* MergeInternal on the page last_id, the back of the write set, with the
\* sibling hint of its level
MergeInternal(t, last_id, hint, insert_record, delete_record) ==
  LET last_page == t.pages[last_id]
      l_page_id == IF hint.right_bro THEN last_id ELSE hint.bro_page_id
      r_page_id == IF hint.right_bro THEN hint.bro_page_id ELSE last_id
      l_index == IF hint.right_bro THEN hint.self_index ELSE hint.self_index - 1
      m == Internal_Merge(t.pages[l_page_id], t.pages[r_page_id])
      rec == Records(m, l_page_id, r_page_id, l_index, l_index + 1)
  IN IF hint.bro_page_id # INVALID_PAGE_ID THEN
       [tree |-> [t EXCEPT !.pages[l_page_id] = m.left, !.pages[r_page_id] = m.right],
        insert_record |-> rec.insert_record, delete_record |-> rec.delete_record]
     ELSE
       [tree |-> t,
        insert_record |-> IF GetSize(last_page) = 0 THEN <<>>
                          ELSE IF GetSize(last_page) # 1
                          THEN <<<<KeyAt(last_page, 0), last_id>>>>
                          ELSE insert_record,
        delete_record |-> Append(delete_record, 0)]

RECURSIVE MergeUp(_, _, _, _, _, _)
\* the while loop of Merge and the root change after it.  fault: the header
\* page guard was dropped before SetRootPageId uses it
MergeUp(t, write_set, index, header_page, insert_record, delete_record) ==
  IF write_set = <<>> THEN
    IF delete_record # <<>> /\ insert_record = <<>> THEN
      [fault |-> ~header_page,
       tree |-> [t EXCEPT !.root_page_id_ = IF header_page THEN INVALID_PAGE_ID ELSE @]]
    ELSE IF insert_record # <<>> THEN
      [fault |-> ~header_page,
       tree |-> [t EXCEPT !.root_page_id_ = IF header_page THEN insert_record[1][2] ELSE @]]
    ELSE [fault |-> FALSE, tree |-> t]
  ELSE
    LET id == Back(write_set)
        last_page == Internal_InsertAll(Internal_RemoveAll(t.pages[id], delete_record),
                                        insert_record)
        applied == [t EXCEPT !.pages[id] = last_page]
        mi == MergeInternal(applied, id, Back(index), insert_record, delete_record)
    IN IF GetSize(last_page) >= GetMinSize(last_page) THEN [fault |-> FALSE, tree |-> applied]
       ELSE MergeUp(mi.tree, PopBack(write_set), PopBack(index), header_page,
                    mi.insert_record, mi.delete_record)

\* a Merge that leaves the root page id alone when the last page is emptied
BPlusTree_MergeRootKept(t, ctx) ==
  LET ml == MergeLeaf(t, ctx)
      up == MergeUp(ml.tree, ml.write_set_, ml.index_, ctx.header_page_,
                    ml.insert_record, ml.delete_record)
  IN IF ml.done THEN [fault |-> FALSE, tree |-> t]
     ELSE IF up.tree.root_page_id_ = INVALID_PAGE_ID
     THEN [up EXCEPT !.tree.root_page_id_ = t.root_page_id_]
     ELSE up

\* Merge(ctx) on the tree t
BPlusTree_Merge(t, ctx) ==
  LET ml == MergeLeaf(t, ctx)
  IN IF ml.done THEN [fault |-> FALSE, tree |-> t]
     ELSE MergeUp(ml.tree, ml.write_set_, ml.index_, ctx.header_page_,
                  ml.insert_record, ml.delete_record)

\* a Remove that goes on whether or not the key is in the tree
PresentAssumed(t, key) == [found |-> TRUE, value |-> NoValue, hang |-> FALSE]

\* std::vector<ValueType> tmp; GetValue(key, &tmp, txn)
Present(t, key) == BPlusTree_GetValue(t, key)

\* found: the call got past IsEmpty and the presence check
BPlusTree_Remove(t, key) ==
  LET ctx == FindLeafMut(t, key, TRUE)
      leaf_id == Back(ctx.write_set_)
      removed == [t EXCEPT !.pages[leaf_id] = Leaf_Remove(@, key)]
      merged == BPlusTree_Merge(removed, ctx)
  IN IF IsEmpty(t) THEN [found |-> FALSE, hang |-> FALSE, fault |-> FALSE, tree |-> t]
     ELSE IF Present(t, key).hang \/ ~Present(t, key).found
     THEN [found |-> FALSE, hang |-> Present(t, key).hang, fault |-> FALSE, tree |-> t]
     ELSE IF ctx.hang THEN [found |-> TRUE, hang |-> TRUE, fault |-> FALSE, tree |-> t]
     ELSE [found |-> TRUE, hang |-> FALSE, fault |-> merged.fault, tree |-> merged.tree]

(***************************************************************************)
(* IndexIterator: [page_id_, index_, res_]; active tells whether the       *)
(* client holds an iterator at all.                                        *)
(***************************************************************************)
GetItem(n, index) == n.array_[index + 1]

NoIterator == [active |-> FALSE, page_id_ |-> INVALID_PAGE_ID, index_ |-> 0, res_ |-> <<>>]

IndexIterator(t, page_id, index) ==
  [active |-> TRUE, page_id_ |-> page_id, index_ |-> index,
   res_ |-> IF page_id = INVALID_PAGE_ID THEN <<>> ELSE GetItem(t.pages[page_id], index)]

BPlusTree_Begin(t) ==
  IF IsEmpty(t) THEN IndexIterator(t, INVALID_PAGE_ID, 0)
  ELSE IndexIterator(t, FindLeftMostLeaf(t), 0)

BPlusTree_End(t) == IndexIterator(t, INVALID_PAGE_ID, 0)

IsEnd(it) == it.page_id_ = INVALID_PAGE_ID

\* operator==
IteratorEquals(a, b) == a.page_id_ = b.page_id_ /\ a.index_ = b.index_

\* operator++
IndexIterator_Next(t, it) ==
  LET leaf_page == t.pages[it.page_id_]
      next_page_id == leaf_page.next_page_id_
  IN IF it.index_ < GetSize(leaf_page) - 1
     THEN [it EXCEPT !.index_ = @ + 1, !.res_ = GetItem(leaf_page, it.index_ + 1)]
     ELSE [it EXCEPT !.index_ = 0, !.page_id_ = next_page_id,
                     !.res_ = IF next_page_id # INVALID_PAGE_ID
                              THEN GetItem(t.pages[next_page_id], 0) ELSE @]

(***************************************************************************)
(* The client of the index: one thread that inserts, removes and scans.    *)
(***************************************************************************)
\* (leaf_max_size, internal_max_size) of the trees explored
TreeSizes == {<<3, 3>>}

RECURSIVE Subtree(_, _)
\* the page ids the pointers of page id lead to, id included
Subtree(t, id) ==
  IF IsLeafPage(t.pages[id]) THEN {id}
  ELSE {id} \cup UNION {Subtree(t, ValueAt(t.pages[id], i)) : i \in 0 .. GetSize(t.pages[id]) - 1}

\* the pages of the tree
Nodes(t) == IF IsEmpty(t) THEN {} ELSE Subtree(t, t.root_page_id_)

\* t without the pages no pointer leads to any more.  Merge and the root
\* change leave such pages behind (the tree calls no DeletePage); page ids
\* are not reused and every fetch takes its page id from the header page or
\* from a page of the tree, so these pages are never read again.  They are
\* the page ids below next_page_id_ that pages does not hold.
Unreferenced(t) == [t EXCEPT !.pages = [id \in Nodes(t) |-> t.pages[id]]]

RECURSIVE HeightFrom(_, _)
HeightFrom(t, id) ==
  IF IsLeafPage(t.pages[id]) \/ GetSize(t.pages[id]) = 0 THEN 1
  ELSE 1 + HeightFrom(t, ValueAt(t.pages[id], 0))

Height(t) == IF IsEmpty(t) THEN 0 ELSE HeightFrom(t, t.root_page_id_)

\* what a call did to the tree, told from the tree before and after it
Events(before, after) ==
  LET kept == DOMAIN before.pages \cap DOMAIN after.pages
      written == {id \in kept : before.pages[id] # after.pages[id]}
  IN {e \in {"split", "grow", "borrow", "merge", "collapse", "empty"} :
        \/ e = "split" /\ after.next_page_id_ > before.next_page_id_
        \/ e = "grow" /\ Height(before) > 0 /\ Height(after) > Height(before)
        \/ e = "borrow" /\ DOMAIN after.pages = DOMAIN before.pages
                        /\ Cardinality({id \in written : IsLeafPage(after.pages[id])}) = 2
        \/ e = "merge" /\ \E id \in DOMAIN before.pages : id \notin DOMAIN after.pages
        \/ e = "collapse" /\ Height(after) > 0 /\ Height(after) < Height(before)
        \/ e = "empty" /\ Height(after) = 0 /\ Height(before) > 0}

NoCall == [op |-> "none", ret |-> TRUE, hang |-> FALSE, fault |-> FALSE, ev |-> {}]

Threads == 1 .. NumThreads

\* a thread outside every call: op and ret are its last call and what it
\* returned, it is the iterator it owns, lin whether each of its calls so far
\* returned what the call does on kv at the step where it read or wrote its leaf
Idle ==
  [op |-> "none", pc |-> "idle", key |-> 0, page_id |-> INVALID_PAGE_ID,
   read_set_ |-> <<>>, write_set_ |-> <<>>, header_page_ |-> FALSE, index_ |-> <<>>,
   insert_record |-> <<>>, delete_record |-> <<>>,
   it |-> NoIterator, ret |-> FALSE, lin |-> TRUE]

InitThreads == threads = [t \in Threads |-> Idle]

\* the index after its constructor, with no iterator alive
InitIndex ==
  /\ \E c \in TreeSizes : tree = BPlusTree_Init(c[1], c[2])
  /\ kv = <<>>
  /\ iter = NoIterator
  /\ visited = <<>>
  /\ last = NoCall

\* the pool before the index is built on it
InitTree == InitPool /\ InitIndex /\ InitReplacers /\ InitTrail /\ InitThreads

\* bool Insert(key, value)
Insert(key, value) ==
  LET r == BPlusTree_Insert(tree, key, value) IN
  /\ ~iter.active
  /\ ~last.hang /\ ~last.fault
  /\ r.tree.next_page_id_ <= MaxPageId + 1
  /\ tree' = Unreferenced(r.tree)
  /\ kv' = IF key \in DOMAIN kv THEN kv ELSE (key :> value) @@ kv
  /\ last' = [op |-> "Insert", ret |-> r.ok, hang |-> r.hang, fault |-> r.fault,
              ev |-> Events(tree, tree')]
  /\ UNCHANGED <<iter, visited, bpm_vars, lru_vars, disk_vars, thread_vars>>

\* void Remove(key)
Remove(key) ==
  LET r == BPlusTree_Remove(tree, key) IN
  /\ ~iter.active
  /\ ~last.hang /\ ~last.fault
  /\ tree' = Unreferenced(r.tree)
  /\ kv' = [k \in (DOMAIN kv) \ {key} |-> kv[k]]
  /\ last' = [op |-> "Remove", ret |-> r.found, hang |-> r.hang, fault |-> r.fault,
              ev |-> Events(tree, tree')]
  /\ UNCHANGED <<iter, visited, bpm_vars, lru_vars, disk_vars, thread_vars>>

\* it = Begin()
Begin ==
  /\ ~iter.active
  /\ ~last.hang /\ ~last.fault
  /\ iter' = BPlusTree_Begin(tree)
  /\ visited' = IF IsEnd(iter') THEN <<>> ELSE <<iter'.res_[1]>>
  /\ last' = [NoCall EXCEPT !.op = "Begin"]
  /\ UNCHANGED <<tree, kv, bpm_vars, lru_vars, disk_vars, thread_vars>>

\* ++it, by a client that stops at End()
Advance ==
  /\ iter.active /\ ~IteratorEquals(iter, BPlusTree_End(tree))
  /\ iter' = IndexIterator_Next(tree, iter)
  /\ visited' = IF IsEnd(iter') THEN visited ELSE Append(visited, iter'.res_[1])
  /\ last' = [NoCall EXCEPT !.op = "++"]
  /\ UNCHANGED <<tree, kv, bpm_vars, lru_vars, disk_vars, thread_vars>>

\* the iterator that has reached End() is destroyed
Finish ==
  /\ iter.active /\ IteratorEquals(iter, BPlusTree_End(tree))
  /\ iter' = NoIterator
  /\ visited' = <<>>
  /\ last' = [NoCall EXCEPT !.op = "~IndexIterator"]
  /\ UNCHANGED <<tree, kv, bpm_vars, lru_vars, disk_vars, thread_vars>>

\* Insert of a key the client has not inserted, or has removed, with the
\* record id of the key
InsertRecord(key) == key \notin DOMAIN kv /\ Insert(key, key)

\* Insert of a key the client has inserted already, with any record id
InsertAgain(key, value) == key \in DOMAIN kv /\ Insert(key, value)

\* a client that only inserts, any record id with any key
NextInsert == \E key \in Keys, value \in Values : Insert(key, value)

\* a client that inserts and removes
NextTree ==
  \/ \E key \in Keys : InsertRecord(key)
  \/ \E key \in Keys, value \in Values : InsertAgain(key, value)
  \/ \E key \in Keys : Remove(key)

\* a client that inserts, removes and scans the index between the calls
NextScan ==
  \/ \E key \in Keys : InsertRecord(key)
  \/ \E key \in Keys : Remove(key)
  \/ Begin
  \/ Advance
  \/ Finish

SpecInsert == InitTree /\ [][NextInsert]_vars

SpecTree == InitTree /\ [][NextTree]_vars

SpecScan == InitTree /\ [][NextScan]_vars

(***************************************************************************)
(* Properties of the index.                                                *)
(***************************************************************************)
\* what GetValue has to return for key k after the calls made so far
Expected(k) ==
  IF k \in DOMAIN kv THEN [found |-> TRUE, value |-> kv[k], hang |-> FALSE]
  ELSE [found |-> FALSE, value |-> NoValue, hang |-> FALSE]

\* C5: after any sequence of Insert calls GetValue(k) returns true with the
\* value k was first inserted with for every inserted key k, and false for
\* every key that was never inserted; every Insert call returns.
C5_SearchRoundTrip ==
  /\ ~last.hang /\ ~last.fault
  /\ \A k \in Keys : BPlusTree_GetValue(tree, k) = Expected(k)

\* every key is in after inserts that split leaves, split the root internal
\* page and grew the tree to three levels
C5_Witness == DOMAIN kv = Keys /\ Height(tree) = 3 /\ last.op = "Insert" /\ last.ret

Found(t) == {k \in Keys : BPlusTree_GetValue(t, k).found}

C6_Step ==
  \A k \in Keys :
    Remove(k) /\ k \in DOMAIN kv =>
      /\ ~BPlusTree_GetValue(tree', k).found
      /\ \A o \in Keys \ {k} : BPlusTree_GetValue(tree', o) = BPlusTree_GetValue(tree, o)

\* C6: Remove(k) of a present key makes GetValue(k) return false and changes
\* the result of GetValue for no other key; at any time the keys GetValue finds
\* are the keys inserted and not since removed, each with its inserted value.
C6_RemoveRoundTrip ==
  /\ [](Found(tree) = DOMAIN kv /\ \A k \in DOMAIN kv : BPlusTree_GetValue(tree, k).value = kv[k])
  /\ [][C6_Step]_vars

\* a Remove has merged pages and made a child the new root; keys are left
C6_Witness ==
  /\ last.op = "Remove" /\ last.ret
  /\ {"merge", "collapse"} \subseteq last.ev
  /\ kv # <<>>

C7_Step ==
  \A k \in Keys, v \in Values :
    Insert(k, v) =>
      IF k \in DOMAIN kv
      THEN /\ ~last'.ret
           /\ tree' = tree
           /\ BPlusTree_GetValue(tree', k) = Expected(k)
      ELSE last'.ret

\* C7: Insert of a key that is in the tree returns false and leaves the root
\* page id, every page of the tree (entries, sizes, next page ids) and the
\* page id counter as they were, and GetValue still returns the first value;
\* Insert of an absent key returns true.
C7_DuplicateInsert == [][C7_Step]_vars

\* a duplicate Insert with another record id was refused by a tree of two
\* levels at least
C7_Witness ==
  /\ last.op = "Insert" /\ ~last.ret
  /\ Height(tree) >= 2
  /\ \E k \in DOMAIN kv : kv[k] = k

C8_Step ==
  \A k \in Keys : Remove(k) /\ k \notin DOMAIN kv => tree' = tree /\ ~last'.hang /\ ~last'.fault

\* C8: Remove of a key that is not in the tree, the empty tree included,
\* leaves the root page id, every page of the tree and the page id counter (no
\* page is allocated) as they were.
C8_RemoveAbsent == [][C8_Step]_vars

\* a Remove has returned at the presence check on a tree that holds a leaf
\* below its minimum size
C8_Witness ==
  /\ last.op = "Remove" /\ ~last.ret
  /\ \E id \in Nodes(tree) : GetSize(tree.pages[id]) < GetMinSize(tree.pages[id])
  /\ Height(tree) >= 2

RECURSIVE Ascending(_)
\* the elements of the set S of numbers in ascending order
Ascending(S) ==
  IF S = {} THEN <<>>
  ELSE LET least == CHOOSE x \in S : \A y \in S : x <= y
       IN <<least>> \o Ascending(S \ {least})

\* C9: a scan from Begin() with ++ yields the keys in the tree in strictly
\* ascending order, each once: the keys yielded so far are the least keys of
\* the tree in ascending order, the iterator holds the record of the last of
\* them, and it equals End() (page id INVALID_PAGE_ID, index 0) only when
\* every key has been yielded, at once on an empty tree.
C9_Iteration ==
  iter.active =>
    /\ Len(visited) <= Cardinality(DOMAIN kv)
    /\ visited = SubSeq(Ascending(DOMAIN kv), 1, Len(visited))
    /\ IsEnd(iter) =>
         Len(visited) = Cardinality(DOMAIN kv) /\ IteratorEquals(iter, BPlusTree_End(tree))
    /\ ~IsEnd(iter) =>
         /\ Len(visited) >= 1
         /\ iter.res_ = <<visited[Len(visited)], kv[visited[Len(visited)]]>>

\* a scan of a tree of three levels with every key in it has reached End()
C9_Witness ==
  /\ iter.active /\ IsEnd(iter)
  /\ Len(visited) = MaxKey
  /\ Height(tree) = 3

\* C10: after every Insert and Remove every page of the tree but the root has
\* min_size <= size < max_size with min_size = ceil(max_size / 2), max_size
\* being leaf_max_size in a leaf and internal_max_size + 1 in an internal
\* page, and the root is below max_size too.
C10_NodeBounds ==
  \A id \in Nodes(tree) :
    LET n == tree.pages[id] IN
    /\ n.max_size_ = IF IsLeafPage(n) THEN tree.leaf_max_size_ ELSE tree.internal_max_size_ + 1
    /\ GetSize(n) < n.max_size_
    /\ id # tree.root_page_id_ => GetSize(n) >= (n.max_size_ + 1) \div 2

\* the pool after its constructor; no index is built on it
InitBPM == InitPool /\ InitIndex /\ InitReplacers /\ InitTrail /\ InitThreads

SpecBPM == InitBPM /\ [][NextBPM]_vars

SpecGuard == InitBPM /\ [][NextGuard]_vars

SpecReplacer == InitBPM /\ [][NextReplacer]_vars

(***************************************************************************)
(* Clients that write into the pages they pin.  trail[p].bytes is data_ of *)
(* page p at its last successful UnpinPage (-1: not unpinned since it was  *)
(* last fetched or deleted), and trail[p].evicted tells that p last left   *)
(* the pool as the victim of NewPage or FetchPage while its dirty bit was  *)
(* set.                                                                    *)
(***************************************************************************)
InPool(b, p) == p \in DOMAIN b.page_table_
FrameOf(b, p) == b.pages_[b.page_table_[p]]

\* NewPage or FetchPage has pinned page_id and may have replaced another page
Replaced(b, nb, page_id, t) ==
  [p \in PageIds |->
     IF InPool(b, p) /\ ~InPool(nb, p)
     THEN [t[p] EXCEPT !.evicted = FrameOf(b, p).is_dirty_]
     ELSE IF p = page_id /\ InPool(nb, p) THEN [t[p] EXCEPT !.bytes = -1]
     ELSE t[p]]

\* a call that changes the pool b into Op(b) was made; while a FlushAllPages
\* is running the call is made on the pools of flush as well, and the flush
\* may be done as a whole right after it
Overlapped(fl, Op(_)) ==
  IF fl.pc = "idle" THEN fl
  ELSE [fl EXCEPT !.alone = Op(@),
                  !.could = {Op(c) : c \in @} \cup {FlushAllPages(Op(fl.alone))},
                  !.n = @ + 1]

\* the bounds of the writing clients
WithinWriters(b) ==
  /\ Within(b)
  /\ \A f \in Frames : b.pages_[f].pin_count_ <= MaxWriterPin

ClientNewPage ==
  LET r == NewPage(bpm) IN
  /\ WithinWriters(r.bpm)
  /\ bpm' = r.bpm
  /\ ret' = Result("NewPage", r.page_id, r.page, r.page # nullptr, r.how)
  /\ trail' = Replaced(bpm, r.bpm, r.page_id, trail)
  /\ flush' = Overlapped(flush, LAMBDA b : NewPage(b).bpm)
  /\ UNCHANGED <<latch, guards, raw_pins, tree_vars, lru_vars, thread_vars>>

ClientFetchPage(p) ==
  LET r == FetchPage(bpm, p) IN
  /\ WithinWriters(r.bpm)
  /\ bpm' = r.bpm
  /\ ret' = Result("FetchPage", p, r.page, r.page # nullptr, r.how)
  /\ trail' = Replaced(bpm, r.bpm, p, trail)
  /\ flush' = Overlapped(flush, LAMBDA b : FetchPage(b, p).bpm)
  /\ UNCHANGED <<latch, guards, raw_pins, tree_vars, lru_vars, thread_vars>>

\* the holder of a pin writes d into the page (Page::GetData)
ClientWrite(p, d) ==
  /\ InPool(bpm, p)
  /\ FrameOf(bpm, p).pin_count_ > 0
  /\ FrameOf(bpm, p).data_ # d
  /\ bpm' = [bpm EXCEPT !.pages_[bpm.page_table_[p]].data_ = d]
  /\ ret' = Result("GetData", INVALID_PAGE_ID, nullptr, TRUE, "none")
  /\ flush' = Overlapped(flush, LAMBDA b : [b EXCEPT !.pages_[b.page_table_[p]].data_ = d])
  /\ UNCHANGED <<latch, guards, raw_pins, trail, tree_vars, lru_vars, thread_vars>>

ClientUnpinPage(p, is_dirty) ==
  LET r == UnpinPage(bpm, p, is_dirty) IN
  /\ bpm' = r.bpm
  /\ ret' = Result("UnpinPage", INVALID_PAGE_ID, nullptr, r.ok, "none")
  /\ trail' = IF r.ok THEN [trail EXCEPT ![p].bytes = FrameOf(bpm, p).data_] ELSE trail
  /\ flush' = Overlapped(flush, LAMBDA b : UnpinPage(b, p, is_dirty).bpm)
  /\ UNCHANGED <<latch, guards, raw_pins, tree_vars, lru_vars, thread_vars>>

ClientFlushPage(p) ==
  LET r == FlushPage(bpm, p) IN
  /\ bpm' = r.bpm
  /\ ret' = Result("FlushPage", INVALID_PAGE_ID, nullptr, r.ok, "none")
  /\ flush' = Overlapped(flush, LAMBDA b : FlushPage(b, p).bpm)
  /\ UNCHANGED <<latch, guards, raw_pins, trail, tree_vars, lru_vars, thread_vars>>

\* void FlushAllPages(), with no other call in progress
ClientFlushAllPages ==
  /\ bpm' = FlushAllPages(bpm)
  /\ ret' = Result("FlushAllPages", INVALID_PAGE_ID, nullptr, TRUE, "none")
  /\ UNCHANGED <<latch, guards, raw_pins, disk_vars, tree_vars, lru_vars, thread_vars>>

ClientDeletePage(p) ==
  LET r == DeletePage(bpm, p) IN
  /\ bpm' = r.bpm
  /\ ret' = Result(IF r.threw THEN "DeletePage threw" ELSE "DeletePage",
                   p, nullptr, r.ok, "none")
  /\ trail' = IF InPool(bpm, p) /\ ~InPool(r.bpm, p)
              THEN [trail EXCEPT ![p] = [bytes |-> -1, evicted |-> FALSE]] ELSE trail
  /\ flush' = Overlapped(flush, LAMBDA b : DeletePage(b, p).bpm)
  /\ UNCHANGED <<latch, guards, raw_pins, tree_vars, lru_vars, thread_vars>>

NextDisk ==
  \/ ClientNewPage
  \/ ClientFlushAllPages
  \/ \E p \in {q \in PageIds : Allocated(q)} :
       \/ ClientFetchPage(p)
       \/ \E d \in 0 .. MaxData : ClientWrite(p, d)
       \/ \E is_dirty \in BOOLEAN : ClientUnpinPage(p, is_dirty)
       \/ ClientFlushPage(p)
       \/ ClientDeletePage(p)

SpecDisk == InitBPM /\ [][NextDisk]_vars

(***************************************************************************)
(* The leaf chain.                                                         *)
(***************************************************************************)
RECURSIVE Concat(_)
Concat(seqs) == IF seqs = <<>> THEN <<>> ELSE Head(seqs) \o Concat(Tail(seqs))

RECURSIVE LeavesUnder(_, _)
\* the leaves the pointers of page id lead to, from the left to the right
LeavesUnder(t, id) ==
  IF IsLeafPage(t.pages[id]) THEN <<id>>
  ELSE Concat([i \in 1 .. GetSize(t.pages[id]) |-> LeavesUnder(t, ValueAt(t.pages[id], i - 1))])

RECURSIVE ChainFrom(_, _, _)
\* the page ids GetNextPageId leads through from page id, INVALID_PAGE_ID at
\* the end included; a page that is no page of the tree ends the walk, and so
\* do `steps` steps
ChainFrom(t, id, steps) ==
  IF id = INVALID_PAGE_ID \/ id \notin DOMAIN t.pages \/ steps = 0 THEN <<id>>
  ELSE <<id>> \o ChainFrom(t, t.pages[id].next_page_id_, steps - 1)

\* the keys of the leaves of the chain, in the order of the chain
ChainKeys(t, chain) ==
  Concat([i \in 1 .. Len(chain) |->
            [j \in 1 .. GetSize(t.pages[chain[i]]) |-> KeyAt(t.pages[chain[i]], j - 1)]])

\* C11: after every Insert and Remove the walk along next_page_id from the
\* leftmost leaf passes the leaves the root leads to, each once, from the left
\* to the right, with ascending keys, and then reaches INVALID_PAGE_ID; it
\* passes no page that a merge took out of the tree.
C11_LeafChain ==
  ~IsEmpty(tree) =>
    LET leaves == LeavesUnder(tree, tree.root_page_id_)
        keys == ChainKeys(tree, leaves)
    IN /\ ChainFrom(tree, FindLeftMostLeaf(tree), MaxPageId) = leaves \o <<INVALID_PAGE_ID>>
       /\ \A i, j \in 1 .. Len(keys) : i < j => keys[i] < keys[j]

\* a Remove has merged two leaves and the tree still has two leaves at least
C11_Witness ==
  /\ last.op = "Remove" /\ "merge" \in last.ev
  /\ ~IsEmpty(tree)
  /\ Len(LeavesUnder(tree, tree.root_page_id_)) >= 2

(***************************************************************************)
(* The eviction policy.                                                    *)
(***************************************************************************)
\* the known frames the replacer r may evict
EvictableFrames(r) == {f \in DOMAIN r.node_store_ : r.node_store_[f].is_evictable_}

\* the timestamp of the k-th most recent access of frame f
KthRecent(f) == lru.seen[f][Len(lru.seen[f]) - k_ + 1]

\* what LRU-K has Evict return: with E the evictable frames, the frame of E
\* with fewer than k accesses whose first access is the oldest, and if E has
\* no such frame, the frame of E whose k-th most recent access is the oldest
Victim(E) ==
  LET Inf == {f \in E : Len(lru.seen[f]) < k_}
  IN IF E = {} THEN NotEvicted
     ELSE IF Inf # {}
     THEN [ok |-> TRUE,
           frame_id |-> CHOOSE f \in Inf : \A g \in Inf : lru.seen[f][1] <= lru.seen[g][1]]
     ELSE [ok |-> TRUE,
           frame_id |-> CHOOSE f \in E : \A g \in E : KthRecent(f) <= KthRecent(g)]

C12_Step ==
  \A order \in Orders(DOMAIN lru.scan.node_store_) :
    ReplacerEvict(order) =>
      /\ lru'.evicted.set = Victim(EvictableFrames(lru.set))
      /\ lru'.evicted.scan = Victim(EvictableFrames(lru.scan))
      /\ lru'.evicted.set = lru'.evicted.scan
      /\ lru'.evicted.set.ok =>
           /\ lru'.evicted.set.frame_id \notin DOMAIN lru'.set.node_store_
           /\ lru'.evicted.scan.frame_id \notin DOMAIN lru'.scan.node_store_
      /\ ~lru'.evicted.set.ok => lru'.set = lru.set /\ lru'.scan = lru.scan

\* C12: Evict returns false when no frame is evictable; otherwise it forgets
\* and returns the evictable frame with fewer than k accesses whose first
\* access is the oldest, and when there is none the evictable frame whose k-th
\* most recent access is the oldest.  The ordered-set and the linear-scan
\* replacer, given the same calls, know the same frames with the same
\* evictable flags and return the same victim, whatever the order in which
\* the linear scan meets the frames.
C12_SameVictim ==
  /\ [](/\ DOMAIN lru.set.node_store_ = DOMAIN lru.scan.node_store_
        /\ EvictableFrames(lru.set) = EvictableFrames(lru.scan)
        /\ lru.set.curr_size_ = lru.scan.curr_size_)
  /\ [][C12_Step]_vars

\* the last Evict returned a frame with k accesses and left an evictable frame
\* with k accesses whose latest access is older than the latest access of the
\* frame returned
C12_Witness ==
  /\ lru.op = "Evict" /\ lru.evicted.set.ok
  /\ Len(lru.chosen) >= k_
  /\ \E g \in EvictableFrames(lru.set) :
       /\ Len(lru.seen[g]) >= k_
       /\ lru.seen[g][Len(lru.seen[g])] < lru.chosen[Len(lru.chosen)]

(***************************************************************************)
(* UnpinPage and DeletePage, called by clients in any order.               *)
(***************************************************************************)
IsEvictable(b, f) ==
  f \in DOMAIN b.replacer_.node_store_ /\ b.replacer_.node_store_[f].is_evictable_

C15_Step ==
  \A p \in PageIds \cup {INVALID_PAGE_ID}, is_dirty \in BOOLEAN :
    UnpinPageCall(p, is_dirty) =>
      IF ~Resident(p) \/ PinCount(bpm, bpm.page_table_[p]) = 0
      THEN ~ret'.ok /\ bpm' = bpm
      ELSE LET f == bpm.page_table_[p] IN
           /\ ret'.ok
           /\ PinCount(bpm', f) = PinCount(bpm, f) - 1
           /\ IsEvictable(bpm', f) <=> PinCount(bpm', f) = 0
           /\ \A o \in Frames \ {f} :
                /\ PinCount(bpm', o) = PinCount(bpm, o)
                /\ IsEvictable(bpm', o) <=> IsEvictable(bpm, o)
           /\ bpm'.page_table_ = bpm.page_table_

\* C15: UnpinPage returns false and changes nothing when the page is not
\* resident or its pin count is 0; otherwise it returns true, lowers the pin
\* count of that page by exactly 1 and leaves its frame evictable exactly when
\* the count has reached 0; no pin count is ever negative.
C15_UnpinPage ==
  /\ [](\A f \in Frames : PinCount(bpm, f) >= 0)
  /\ [][C15_Step]_vars

\* an UnpinPage has succeeded with one page at pin count 0 and evictable and
\* another still pinned and not evictable
C15_Witness ==
  /\ ret.op = "UnpinPage" /\ ret.ok
  /\ \E f, o \in Frames :
       /\ bpm.pages_[f].page_id_ # INVALID_PAGE_ID
       /\ PinCount(bpm, f) = 0 /\ IsEvictable(bpm, f)
       /\ PinCount(bpm, o) > 0 /\ ~IsEvictable(bpm, o)

\* C17: DeletePage(p) returns true for every page id p that is not resident,
\* INVALID_PAGE_ID and the ids never allocated among them, and changes nothing
\* of the buffer pool.
C17_DeleteNotResident ==
  [][\A p \in PageIds \cup {INVALID_PAGE_ID} :
       ~Resident(p) /\ DeletePageCall(p) => ret'.ok /\ bpm' = bpm]_vars

(***************************************************************************)
(* The pages and the disk, with clients that write into the pages they     *)
(* pin.                                                                    *)
(***************************************************************************)
\* a pool constructed over a disk manager that already holds pages
FreshPool(disk) == [BufferPoolManager_Init EXCEPT !.disk_manager_ = disk]

SameResidency(b, nb) ==
  /\ nb.page_table_ = b.page_table_
  /\ nb.free_list_ = b.free_list_
  /\ nb.replacer_ = b.replacer_
  /\ \A f \in Frames :
       /\ nb.pages_[f].page_id_ = b.pages_[f].page_id_
       /\ nb.pages_[f].pin_count_ = b.pages_[f].pin_count_
       /\ nb.pages_[f].data_ = b.pages_[f].data_

C13_Step ==
  ClientFlushAllPages =>
    /\ SameResidency(bpm, bpm')
    /\ \A p \in PageIds :
         InPool(bpm, p) =>
           /\ ReadPage(bpm'.disk_manager_, p) = FrameOf(bpm, p).data_
           /\ ~FrameOf(bpm', p).is_dirty_
           /\ FrameOf(FetchPage(FreshPool(bpm'.disk_manager_), p).bpm, p).data_
                = FrameOf(bpm, p).data_

\* C13: after a FlushAllPages that runs alone the disk holds, for every
\* resident page, the bytes of its frame, and its dirty bit is false, so a new
\* pool over that disk that fetches the page reads those bytes; the flush
\* changes no pin count and no residency.
C13_FlushAllPages == [][C13_Step]_vars

\* FlushAllPages has run on a full pool of written pages, one of them pinned
C13_Witness ==
  /\ ret.op = "FlushAllPages"
  /\ \A f \in Frames :
       /\ bpm.pages_[f].page_id_ # INVALID_PAGE_ID
       /\ bpm.pages_[f].data_ # 0
       /\ ReadPage(bpm.disk_manager_, bpm.pages_[f].page_id_) = bpm.pages_[f].data_
  /\ \E f \in Frames : bpm.pages_[f].pin_count_ > 0

Fetches == ClientNewPage \/ \E p \in PageIds : ClientFetchPage(p)

C14_Step ==
  /\ \A q \in PageIds :
       InPool(bpm, q) /\ ~InPool(bpm', q) /\ FrameOf(bpm, q).is_dirty_ /\ Fetches =>
         /\ ReadPage(bpm'.disk_manager_, q) = FrameOf(bpm, q).data_
         /\ trail[q].bytes = FrameOf(bpm, q).data_
  /\ \A p \in PageIds :
       ~InPool(bpm, p) /\ trail[p].evicted /\ InPool(bpm', p) /\ ClientFetchPage(p) =>
         FrameOf(bpm', p).data_ = trail[p].bytes

\* C14: a NewPage or FetchPage that evicts a dirty page has written its bytes,
\* the ones it had at its last UnpinPage, to the disk when the frame is reused,
\* and a later FetchPage of that page id returns exactly those bytes (the pool
\* has fewer frames than there are pages).
C14_DirtyEviction == [][C14_Step]_vars

\* a page written by a client and evicted while dirty has been fetched again,
\* into a frame the fetch took from another page
C14_Witness ==
  /\ ret.op = "FetchPage" /\ ret.how = "evict"
  /\ trail[ret.page_id].evicted
  /\ InPool(bpm, ret.page_id)
  /\ FrameOf(bpm, ret.page_id).data_ # 0

C16_Step ==
  \A p \in PageIds :
    /\ InPool(bpm, p) /\ InPool(bpm', p)
         /\ FrameOf(bpm, p).is_dirty_ /\ ~FrameOf(bpm', p).is_dirty_
       => ClientFlushPage(p) \/ ClientFlushAllPages
    /\ ClientUnpinPage(p, TRUE) /\ ret'.ok => FrameOf(bpm', p).is_dirty_

\* C16: the dirty bit of a page that stays resident is set by a successful
\* UnpinPage(page, true) and then stays set through every UnpinPage(page,
\* false) (which is what the drop of a clean guard calls), FetchPage and any
\* other call; only FlushPage of that page and FlushAllPages clear it.
C16_DirtyMonotonic == [][C16_Step]_vars

\* a FetchPage has pinned a resident page whose dirty bit was set, and it is
\* still set
C16_Witness ==
  /\ ret.op = "FetchPage" /\ ret.how = "resident"
  /\ bpm.pages_[ret.page].is_dirty_

C18_Step ==
  \A p \in PageIds :
    InPool(bpm, p) /\ ClientDeletePage(p) =>
      LET f == bpm.page_table_[p] IN
      IF PinCount(bpm, f) > 0 THEN ~ret'.ok /\ bpm' = bpm
      ELSE /\ ret'.ok
           /\ ReadPage(bpm'.disk_manager_, p)
                = IF bpm.pages_[f].is_dirty_ THEN bpm.pages_[f].data_
                  ELSE ReadPage(bpm.disk_manager_, p)
           /\ \A q \in PageIds \ {p} :
                ReadPage(bpm'.disk_manager_, q) = ReadPage(bpm.disk_manager_, q)
           /\ bpm'.page_table_ = Erase(bpm.page_table_, p)
           /\ f \notin DOMAIN bpm'.replacer_.node_store_
           /\ bpm'.free_list_ = Append(bpm.free_list_, f)
           /\ bpm'.pages_[f].page_id_ = INVALID_PAGE_ID
           /\ bpm'.pages_[f].pin_count_ = 0
           /\ ~bpm'.pages_[f].is_dirty_
           /\ \A o \in Frames \ {f} : bpm'.pages_[o] = bpm.pages_[o]

\* C18: DeletePage of a resident page with pin count above 0 returns false and
\* changes nothing; with pin count 0 it returns true, has written the page to
\* the disk if it was dirty, has removed it from the page table and its frame
\* from the replacer, and has appended the frame to the free list with pin
\* count 0, dirty bit false and page id INVALID_PAGE_ID.
C18_DeleteResident == [][C18_Step]_vars

\* a DeletePage has succeeded on a page whose written bytes are on the disk,
\* and its frame is the last of the free list
C18_Witness ==
  /\ ret.op = "DeletePage" /\ ret.ok
  /\ ret.page_id # INVALID_PAGE_ID
  /\ ~InPool(bpm, ret.page_id)
  /\ ReadPage(bpm.disk_manager_, ret.page_id) # 0
  /\ bpm.free_list_ # <<>>
  /\ bpm.pages_[bpm.free_list_[Len(bpm.free_list_)]].page_id_ = INVALID_PAGE_ID

(***************************************************************************)
(* Threads on the index.  FetchPageRead and FetchPageWrite block until the *)
(* page's latch is free, so a step of a thread takes the one latch the     *)
(* thread waits for and runs its code up to the next latch it has to take. *)
(* The latches a thread holds are the guards of its Context: write_set_    *)
(* and header_page_ on a write descent, read_set_ on a read descent; an    *)
(* iterator's operator++ holds the guard of its leaf in a local.           *)
(***************************************************************************)
ThreadKeys == 1 .. MaxThreadKey

SetOf(seq) == {seq[i] : i \in DOMAIN seq}

WriteHeld(th) ==
  SetOf(th.write_set_) \cup (IF th.header_page_ THEN {HEADER_PAGE_ID} ELSE {})

ReadHeld(th) == SetOf(th.read_set_)

\* the latch a thread takes with its next step
Wants(th) ==
  IF th.pc \in {"IsEmpty", "GetValue", "FindLeaf", "FindLeftMostLeaf"}
  THEN [page_id |-> HEADER_PAGE_ID, write |-> FALSE]
  ELSE IF th.pc \in {"Insert", "FindLeafMut"}
  THEN [page_id |-> HEADER_PAGE_ID, write |-> TRUE]
  ELSE IF th.pc \in {"read", "operator++", "next"}
  THEN [page_id |-> th.page_id, write |-> FALSE]
  ELSE IF th.pc \in {"write", "MergeLeaf", "MergeInternal"}
  THEN [page_id |-> th.page_id, write |-> TRUE]
  ELSE [page_id |-> INVALID_PAGE_ID, write |-> FALSE]

\* thread u holds a latch that keeps thread t from the latch it waits for
Blocks(u, t) ==
  LET w == Wants(threads[t])
  IN /\ u # t
     /\ w.page_id # INVALID_PAGE_ID
     /\ \/ w.page_id \in WriteHeld(threads[u])
        \/ w.write /\ w.page_id \in ReadHeld(threads[u])

Granted(t) == \A u \in Threads : ~Blocks(u, t)

\* the Context goes out of scope: every guard is dropped
Return(th, r) ==
  [th EXCEPT !.pc = "idle", !.page_id = INVALID_PAGE_ID, !.read_set_ = <<>>,
             !.write_set_ = <<>>, !.header_page_ = FALSE, !.index_ = <<>>,
             !.insert_record = <<>>, !.delete_record = <<>>, !.ret = r]

Call(t, op, pc, key, page_id) ==
  /\ threads[t].pc = "idle"
  /\ threads' = [threads EXCEPT ![t] = [@ EXCEPT !.op = op, !.pc = pc, !.key = key,
                                                 !.page_id = page_id, !.ret = FALSE]]
  /\ UNCHANGED <<bpm_vars, tree_vars, lru_vars, disk_vars>>

CallGetValue(t, key) == Call(t, "GetValue", "GetValue", key, INVALID_PAGE_ID)

\* the value inserted with a key is the key
CallInsert(t, key) == Call(t, "Insert", "Insert", key, INVALID_PAGE_ID)

CallRemove(t, key) == Call(t, "Remove", "IsEmpty", key, INVALID_PAGE_ID)

CallBegin(t) == Call(t, "Begin", "IsEmpty", 0, INVALID_PAGE_ID)

CallNext(t) ==
  /\ threads[t].it.active
  /\ ~IsEnd(threads[t].it)
  /\ Call(t, "operator++", "operator++", 0, threads[t].it.page_id_)

\* GetItem where the assertion index < GetSize() holds, the stale item else
ItemAt(n, index, stale) == IF index < GetSize(n) THEN GetItem(n, index) ELSE stale

\* what GetValue, and the presence check of Remove, do with the answer of
\* the leaf; the answer is compared with the map at this moment
AfterGetValue(th, r) ==
  IF th.op = "Remove" /\ r.found
  THEN [th EXCEPT !.pc = "FindLeafMut", !.read_set_ = <<>>, !.page_id = INVALID_PAGE_ID]
  ELSE [Return(th, r.found) EXCEPT
          !.lin = @ /\ IF th.key \in DOMAIN kv THEN r.found /\ r.value = kv[th.key]
                       ELSE ~r.found]

\* IsEmpty() under the short header read guard of GetRootPageId
IsEmptyStep(t) ==
  LET th == threads[t]
  IN /\ th.pc \in {"IsEmpty", "GetValue"}
     /\ Granted(t)
     /\ threads' = [threads EXCEPT ![t] =
          IF ~IsEmpty(tree)
          THEN [th EXCEPT !.pc = IF th.pc = "GetValue" THEN "FindLeaf"
                                 ELSE IF th.op = "Remove" THEN "GetValue"
                                 ELSE "FindLeftMostLeaf"]
          ELSE IF th.op = "Begin"
          THEN [Return(th, TRUE) EXCEPT !.it = IndexIterator(tree, INVALID_PAGE_ID, 0)]
          ELSE [Return(th, FALSE) EXCEPT !.lin = @ /\ th.key \notin DOMAIN kv]]
     /\ UNCHANGED <<bpm_vars, tree_vars, lru_vars, disk_vars>>

\* FindLeaf and FindLeftMostLeaf take the header read guard; with no root
\* they return at once, and GetValue then reads the header page as a leaf
\* of size 0
ReadHeader(t) ==
  LET th == threads[t]
  IN /\ th.pc \in {"FindLeaf", "FindLeftMostLeaf"}
     /\ Granted(t)
     /\ threads' = [threads EXCEPT ![t] =
          IF ~IsEmpty(tree)
          THEN [th EXCEPT !.pc = "read", !.read_set_ = <<HEADER_PAGE_ID>>,
                          !.page_id = tree.root_page_id_]
          ELSE IF th.op = "Begin"
          THEN [Return(th, TRUE) EXCEPT !.it = IndexIterator(tree, INVALID_PAGE_ID, 0)]
          ELSE AfterGetValue(th, [found |-> FALSE, value |-> NoValue])]
     /\ UNCHANGED <<bpm_vars, tree_vars, lru_vars, disk_vars>>

\* one turn of the read descent: the child is latched, then the parent is
\* popped
ReadChild(t) ==
  LET th == threads[t]
      page == tree.pages[th.page_id]
  IN /\ th.pc = "read"
     /\ Granted(t)
     /\ threads' = [threads EXCEPT ![t] =
          IF IsLeafPage(page) THEN
            IF th.op = "Begin"
            THEN [Return(th, TRUE) EXCEPT
                    !.it = [active |-> TRUE, page_id_ |-> th.page_id, index_ |-> 0,
                            res_ |-> ItemAt(page, 0, <<>>)]]
            ELSE AfterGetValue(th, Leaf_GetValue(page, th.key))
          ELSE IF GetSize(page) = 0 THEN [th EXCEPT !.pc = "hang"]
          ELSE [th EXCEPT !.read_set_ = <<th.page_id>>,
                          !.page_id = IF th.op = "Begin" THEN ValueAt(page, 0)
                                      ELSE ValueAt(page, LookupSlot(page.array_, th.key))]]
     /\ UNCHANGED <<bpm_vars, tree_vars, lru_vars, disk_vars>>

\* the block at the start of Insert: under the header write guard an empty
\* tree gets a root leaf; the guard is released at the end of the block
InsertRoot(t) ==
  LET th == threads[t]
  IN /\ th.pc = "Insert"
     /\ Granted(t)
     /\ WithRoot(tree).next_page_id_ <= MaxThreadPageId + 1
     /\ tree' = WithRoot(tree)
     /\ threads' = [threads EXCEPT ![t] = [th EXCEPT !.pc = "FindLeafMut"]]
     /\ UNCHANGED <<bpm_vars, kv, iter, visited, last, lru_vars, disk_vars>>

\* FindLeafMut takes the header write guard and reads the root page id; with
\* no root it returns an empty write_set_, whose back() the caller then takes
WriteHeader(t) ==
  LET th == threads[t]
  IN /\ th.pc = "FindLeafMut"
     /\ Granted(t)
     /\ threads' = [threads EXCEPT ![t] =
          [th EXCEPT !.pc = IF IsEmpty(tree) THEN "undefined" ELSE "write",
                     !.header_page_ = TRUE,
                     !.page_id = tree.root_page_id_,
                     !.index_ = <<[bro_page_id |-> INVALID_PAGE_ID, self_index |-> 0,
                                   right_bro |-> FALSE]>>]]
     /\ UNCHANGED <<bpm_vars, tree_vars, lru_vars, disk_vars>>

\* a turn of the loop that takes a page at its minimum size for safe on a
\* Remove and drops the header guard above it
FindLeafMutStepEarly(ctx, page_id, key, remove_flag) ==
  LET page == ctx.pages[page_id]
      pushed == [ctx EXCEPT !.write_set_ = Append(@, page_id)]
      size == GetSize(page)
      written == IF ~remove_flag /\ KeyAt(page, 0) > key
                 THEN SetKeyAt(page, 0, key) ELSE page
      safe == IF remove_flag THEN size >= GetMinSize(page)
              ELSE size + 1 < GetMaxSize(page)
      id == LookupSlot(page.array_, key)
  IN IF IsLeafPage(page) THEN [ctx |-> pushed, page_id |-> INVALID_PAGE_ID]
     ELSE IF size = 0 THEN [ctx |-> [pushed EXCEPT !.hang = TRUE], page_id |-> page_id]
     ELSE [ctx |-> [pushed EXCEPT !.pages[page_id] = written,
                                  !.header_page_ = @ /\ ~safe,
                                  !.write_set_ = IF safe THEN <<page_id>> ELSE @,
                                  !.index_ = IF remove_flag
                                             THEN Append(@, SiblingHint(page, id))
                                             ELSE @],
           page_id |-> ValueAt(page, id)]

\* one turn of the loop of FindLeafMut on the page just latched; page_id is
\* the child to latch next, INVALID_PAGE_ID when the page is the leaf
FindLeafMutStep(ctx, page_id, key, remove_flag) ==
  LET page == ctx.pages[page_id]
      pushed == [ctx EXCEPT !.write_set_ = Append(@, page_id)]
      size == GetSize(page)
      written == IF ~remove_flag /\ KeyAt(page, 0) > key
                 THEN SetKeyAt(page, 0, key) ELSE page
      safe == IF remove_flag THEN size > GetMinSize(page)
              ELSE size + 1 < GetMaxSize(page)
      id == LookupSlot(page.array_, key)
  IN IF IsLeafPage(page) THEN [ctx |-> pushed, page_id |-> INVALID_PAGE_ID]
     ELSE IF size = 0 THEN [ctx |-> [pushed EXCEPT !.hang = TRUE], page_id |-> page_id]
     ELSE [ctx |-> [pushed EXCEPT !.pages[page_id] = written,
                                  !.header_page_ = @ /\ ~safe,
                                  !.write_set_ = IF safe THEN <<page_id>> ELSE @,
                                  !.index_ = IF remove_flag
                                             THEN Append(@, SiblingHint(page, id))
                                             ELSE @],
           page_id |-> ValueAt(page, id)]

\* the while loop of Merge, up to the return or to the sibling that
\* MergeInternal has to latch
RECURSIVE MergeLoop(_, _, _, _, _, _)
MergeLoop(t, write_set, index, header_page, insert_record, delete_record) ==
  LET root == MergeUp(t, <<>>, index, header_page, insert_record, delete_record)
      id == Back(write_set)
      last_page == Internal_InsertAll(Internal_RemoveAll(t.pages[id], delete_record),
                                      insert_record)
      applied == [t EXCEPT !.pages[id] = last_page]
      hint == Back(index)
      mi == MergeInternal(applied, id, hint, insert_record, delete_record)
      at == [done |-> TRUE, fault |-> FALSE, tree |-> applied, pc |-> "idle",
             page_id |-> INVALID_PAGE_ID, write_set_ |-> write_set, index_ |-> index,
             insert_record |-> insert_record, delete_record |-> delete_record]
  IN IF write_set = <<>>
     THEN [done |-> TRUE, fault |-> root.fault, tree |-> root.tree, pc |-> "idle",
           page_id |-> INVALID_PAGE_ID, write_set_ |-> write_set, index_ |-> index,
           insert_record |-> insert_record, delete_record |-> delete_record]
     ELSE IF GetSize(last_page) >= GetMinSize(last_page) THEN at
     ELSE IF hint.bro_page_id # INVALID_PAGE_ID
     THEN [at EXCEPT !.done = FALSE, !.pc = "MergeInternal", !.page_id = hint.bro_page_id]
     ELSE MergeLoop(mi.tree, PopBack(write_set), PopBack(index), header_page,
                    mi.insert_record, mi.delete_record)

\* Merge from its start, up to the return or to the sibling that MergeLeaf
\* has to latch
MergeStart(t, ctx) ==
  LET leaf_page == t.pages[Back(ctx.write_set_)]
      hint == Back(ctx.index_)
      ml == MergeLeaf(t, ctx)
      at == [done |-> TRUE, fault |-> FALSE, tree |-> t, pc |-> "idle",
             page_id |-> INVALID_PAGE_ID, write_set_ |-> ctx.write_set_,
             index_ |-> ctx.index_, insert_record |-> <<>>, delete_record |-> <<>>]
  IN IF GetSize(leaf_page) >= GetMinSize(leaf_page) THEN at
     ELSE IF hint.bro_page_id # INVALID_PAGE_ID
     THEN [at EXCEPT !.done = FALSE, !.pc = "MergeLeaf", !.page_id = hint.bro_page_id]
     ELSE MergeLoop(ml.tree, ml.write_set_, ml.index_, ctx.header_page_,
                    ml.insert_record, ml.delete_record)

\* the thread after a stretch of Merge: returned, gone wrong on the header
\* guard it no longer has, or waiting for a sibling
Merging(th, m) ==
  IF m.done /\ m.fault THEN [th EXCEPT !.pc = "undefined"]
  ELSE IF m.done THEN Return(th, TRUE)
  ELSE [th EXCEPT !.pc = m.pc, !.page_id = m.page_id, !.write_set_ = m.write_set_,
                  !.index_ = m.index_, !.insert_record = m.insert_record,
                  !.delete_record = m.delete_record]

\* one turn of the write descent; on the leaf, the rest of Insert (the leaf
\* insert and Split, which latches new pages only) or the rest of Remove up
\* to the first sibling to latch
WriteChild(t) ==
  LET th == threads[t]
      remove_flag == th.op = "Remove"
      step == FindLeafMutStep([pages |-> tree.pages, write_set_ |-> th.write_set_,
                               header_page_ |-> th.header_page_, hang |-> FALSE,
                               index_ |-> th.index_],
                              th.page_id, th.key, remove_flag)
      ctx == step.ctx
      found == [tree EXCEPT !.pages = ctx.pages]
      ins == Leaf_Insert(found.pages[th.page_id], th.key, th.key)
      split == BPlusTree_Split([found EXCEPT !.pages[th.page_id] = ins.page], ctx)
      removed == [found EXCEPT !.pages[th.page_id] = Leaf_Remove(@, th.key)]
      m == MergeStart(removed, ctx)
      down == [th EXCEPT !.write_set_ = ctx.write_set_, !.header_page_ = ctx.header_page_,
                         !.index_ = ctx.index_, !.page_id = step.page_id]
  IN /\ th.pc = "write"
     /\ Granted(t)
     /\ IF ctx.hang THEN
          /\ threads' = [threads EXCEPT ![t] = [down EXCEPT !.pc = "hang"]]
          /\ UNCHANGED <<tree, kv>>
        ELSE IF step.page_id # INVALID_PAGE_ID THEN
          /\ threads' = [threads EXCEPT ![t] = down]
          /\ tree' = found
          /\ UNCHANGED kv
        ELSE IF remove_flag THEN
          /\ threads' = [threads EXCEPT ![t] =
               Merging(down, m)]
          /\ tree' = m.tree
          /\ kv' = [k \in (DOMAIN kv) \ {th.key} |-> kv[k]]
        ELSE IF ~ins.ok THEN
          /\ threads' = [threads EXCEPT ![t] =
               [Return(down, FALSE) EXCEPT !.lin = @ /\ th.key \in DOMAIN kv]]
          /\ tree' = found
          /\ UNCHANGED kv
        ELSE
          /\ split.tree.next_page_id_ <= MaxThreadPageId + 1
          /\ threads' = [threads EXCEPT ![t] =
               [(IF split.fault THEN [down EXCEPT !.pc = "undefined"]
                 ELSE Return(down, TRUE)) EXCEPT !.lin = @ /\ th.key \notin DOMAIN kv]]
          /\ tree' = split.tree
          /\ kv' = (th.key :> th.key) @@ kv
     /\ UNCHANGED <<bpm_vars, iter, visited, last, lru_vars, disk_vars>>

\* MergeLeaf or MergeInternal has latched the sibling; the sibling's guard
\* is dropped at the end of the block, then Merge goes on
LatchSibling(t) ==
  LET th == threads[t]
      ctx == [write_set_ |-> th.write_set_, index_ |-> th.index_,
              header_page_ |-> th.header_page_]
      ml == MergeLeaf(tree, ctx)
      mi == MergeInternal(tree, Back(th.write_set_), Back(th.index_), th.insert_record,
                          th.delete_record)
      m == IF th.pc = "MergeLeaf"
           THEN MergeLoop(ml.tree, ml.write_set_, ml.index_, th.header_page_,
                          ml.insert_record, ml.delete_record)
           ELSE MergeLoop(mi.tree, PopBack(th.write_set_), PopBack(th.index_),
                          th.header_page_, mi.insert_record, mi.delete_record)
  IN /\ th.pc \in {"MergeLeaf", "MergeInternal"}
     /\ Granted(t)
     /\ threads' = [threads EXCEPT ![t] = Merging(th, m)]
     /\ tree' = m.tree
     /\ UNCHANGED <<bpm_vars, kv, iter, visited, last, lru_vars, disk_vars>>

\* operator++ has latched the iterator's leaf: it moves inside the leaf, or
\* keeps the leaf's guard and goes for the next leaf
IteratorLeaf(t) ==
  LET th == threads[t]
      it == th.it
      leaf_page == tree.pages[it.page_id_]
      next_page_id == leaf_page.next_page_id_
  IN /\ th.pc = "operator++"
     /\ Granted(t)
     /\ threads' = [threads EXCEPT ![t] =
          IF it.index_ < GetSize(leaf_page) - 1
          THEN [Return(th, TRUE) EXCEPT
                  !.it = [it EXCEPT !.index_ = @ + 1,
                                    !.res_ = GetItem(leaf_page, it.index_ + 1)]]
          ELSE IF next_page_id = INVALID_PAGE_ID
          THEN [Return(th, TRUE) EXCEPT
                  !.it = [it EXCEPT !.index_ = 0, !.page_id_ = INVALID_PAGE_ID]]
          ELSE [th EXCEPT !.pc = "next", !.read_set_ = <<it.page_id_>>,
                          !.page_id = next_page_id,
                          !.it = [it EXCEPT !.index_ = 0, !.page_id_ = next_page_id]]]
     /\ UNCHANGED <<bpm_vars, tree_vars, lru_vars, disk_vars>>

\* operator++ has latched the next leaf
IteratorNext(t) ==
  LET th == threads[t]
  IN /\ th.pc = "next"
     /\ Granted(t)
     /\ threads' = [threads EXCEPT ![t] =
          [Return(th, TRUE) EXCEPT
             !.it.res_ = ItemAt(tree.pages[th.page_id], 0, th.it.res_)]]
     /\ UNCHANGED <<bpm_vars, tree_vars, lru_vars, disk_vars>>

\* back() of an empty write_set_, or a use of the header guard that was
\* dropped: the thread dies there, or it gets away with it and returns with
\* nothing more done
Undefined(t) ==
  LET th == threads[t]
  IN /\ th.pc = "undefined"
     /\ \E dies \in BOOLEAN :
          threads' = [threads EXCEPT ![t] =
            IF dies THEN [th EXCEPT !.pc = "crashed"]
            ELSE [Return(th, th.op = "Insert") EXCEPT
                    !.lin = @ /\ IF th.op = "Remove" THEN th.key \notin DOMAIN kv
                                 ELSE th.key \in DOMAIN kv]]
     /\ UNCHANGED <<bpm_vars, tree_vars, lru_vars, disk_vars>>

IndexStep(t) ==
  \/ IsEmptyStep(t)
  \/ ReadHeader(t)
  \/ ReadChild(t)
  \/ InsertRoot(t)
  \/ WriteHeader(t)
  \/ WriteChild(t)
  \/ LatchSibling(t)

NextConc ==
  \E t \in Threads :
    \/ \E key \in ThreadKeys : CallGetValue(t, key)
    \/ \E key \in ThreadKeys : CallInsert(t, key)
    \/ \E key \in ThreadKeys : CallRemove(t, key)
    \/ IndexStep(t)
    \/ Undefined(t)

SpecConc == InitTree /\ [][NextConc]_vars

\* the last thread walks the leaves with an iterator, the others write
Scanner == NumThreads

NextLatch ==
  \E t \in Threads :
    \/ t # Scanner /\ \E key \in ThreadKeys : CallInsert(t, key)
    \/ t # Scanner /\ \E key \in ThreadKeys : CallRemove(t, key)
    \/ t = Scanner /\ CallBegin(t)
    \/ t = Scanner /\ CallNext(t)
    \/ IndexStep(t)
    \/ IteratorLeaf(t)
    \/ IteratorNext(t)

SpecLatch == InitTree /\ [][NextLatch]_vars

(***************************************************************************)
(* Threads on the index: latches and atomicity                             *)
(***************************************************************************)

\* every thread of S waits for a latch that another thread of S holds
Deadlocked(S) == S # {} /\ \A t \in S : \E u \in S : Blocks(u, t)

\* C19: whatever GetValue, Insert, Remove and iterator steps run together,
\* no set of threads is left waiting for each other's latches; in particular
\* not an iterator that goes from a leaf to its right neighbour and a Remove
\* that holds that neighbour and latches its left sibling
C19_NoDeadlock == \A S \in SUBSET Threads : ~Deadlocked(S)

\* the pairs the tree holds, as GetValue finds them
Stored(t) ==
  {key \in ThreadKeys : ~IsEmpty(t) /\ BPlusTree_GetValue(t, key).found}

\* C20: Insert, Remove and GetValue that run together act as if each ran at
\* one moment: no call goes wrong, every answer is the answer of the map at
\* the moment the call took effect, and the tree at rest holds the map
C20_Linearizable ==
  /\ \A t \in Threads : threads[t].pc # "crashed" /\ threads[t].lin
  /\ (\A t \in Threads : threads[t].pc = "idle") => Stored(tree) = DOMAIN kv

(***************************************************************************)
(* The pool and its replacer                                               *)
(***************************************************************************)
ResidentFrames(b) == {b.page_table_[p] : p \in DOMAIN b.page_table_}

ScanReplacer_RemoveAsserts(r, f) ==
  f \in DOMAIN r.node_store_ /\ ~r.node_store_[f].is_evictable_

\* Remove of a known frame that is not evictable: the ordered-set version
\* throws, the linear-scan version stops in its assertion
ReplacerRemovePinned(f) ==
  LET rm == LRUKReplacer_Remove(lru.set, f)
  IN /\ rm.threw
     /\ ScanReplacer_RemoveAsserts(lru.scan, f)
     /\ lru' = [lru EXCEPT !.set = rm.r, !.op = "Remove threw"]
     /\ UNCHANGED <<bpm_vars, tree_vars, disk_vars, thread_vars>>

NextReplacerCalls ==
  \/ NextReplacer
  \/ \E f \in ReplacerFrameIds : ReplacerRemovePinned(f)

SpecReplacerCalls == InitBPM /\ [][NextReplacerCalls]_vars

KnownEvictable(r) == {f \in DOMAIN r.node_store_ : r.node_store_[f].is_evictable_}

\* the frames that have an entry in one of the ordered sets
Ordered(r) == {e[2] : e \in r.lru_less_k_ \cup r.lru_k_}

C23_Step ==
  \A f \in ReplacerFrameIds :
    /\ (\E e \in BOOLEAN : ReplacerSetEvictable(f, e)) /\ f \notin DOMAIN lru.set.node_store_
         => lru'.set = lru.set /\ lru'.scan = lru.scan
    /\ ReplacerRemove(f) \/ ReplacerRemovePinned(f) =>
         IF f \notin DOMAIN lru.set.node_store_
         THEN lru'.set = lru.set /\ lru'.scan = lru.scan /\ lru'.op = "Remove"
         ELSE IF f \notin KnownEvictable(lru.set)
         THEN lru'.set = lru.set /\ lru'.scan = lru.scan /\ lru'.op = "Remove threw"
         ELSE /\ lru'.op = "Remove"
              /\ f \notin DOMAIN lru'.set.node_store_ /\ f \notin Ordered(lru'.set)
              /\ f \notin DOMAIN lru'.scan.node_store_
              /\ LRUKReplacer_Size(lru'.set) = LRUKReplacer_Size(lru.set) - 1
              /\ lru'.scan.curr_size_ = lru.scan.curr_size_ - 1
              /\ KnownEvictable(lru'.set) = KnownEvictable(lru.set) \ {f}

\* C23: Remove of a known frame that is not evictable fails with an error
\* and leaves the replacer as it was; Remove and SetEvictable of an unknown
\* frame do nothing; Remove of a known evictable frame forgets the frame and
\* lowers Size() by exactly 1; after any sequence of calls Size() is the
\* number of known frames flagged evictable.
C23_RemoveAndSize ==
  /\ [](/\ LRUKReplacer_Size(lru.set) = Cardinality(KnownEvictable(lru.set))
        /\ lru.scan.curr_size_ = Cardinality(KnownEvictable(lru.scan)))
  /\ [][C23_Step]_vars

\* a Remove has just thrown on a frame that is known and not evictable,
\* while another frame is evictable and a third is unknown
C23_Witness ==
  /\ lru.op = "Remove threw"
  /\ KnownEvictable(lru.set) # {}
  /\ DOMAIN lru.set.node_store_ \ KnownEvictable(lru.set) # {}
  /\ ReplacerFrameIds \ DOMAIN lru.set.node_store_ # {}

(***************************************************************************)
(* The order of Drop                                                       *)
(***************************************************************************)
\* the shares of a latch that are held
Shares(l) == l.readers + (IF l.writer THEN 1 ELSE 0)

\* the read and write guards that hold frame f latched and pinned
LatchedGuards(f) ==
  {g \in GuardIds : guards[g].page_ = f /\ guards[g].kind \in {"read", "write"}
                    /\ guards[g].pc = "idle"}

\* C27: when the Drop of a read or write guard calls UnpinPage, the guard
\* has already released its share of the frame's latch: the shares held are
\* those of the other guards on the frame.
C27_UnlatchBeforeUnpin ==
  [][\A g \in GuardIds :
       LatchedGuard_DropUnpin(g) =>
         Shares(latch[guards[g].page_])
           <= Cardinality(LatchedGuards(guards[g].page_) \ {g})]_vars

(***************************************************************************)
(* The guards of a read descent                                            *)
(***************************************************************************)
\* a descent that never pops the parent
RECURSIVE ReadSetsKept(_, _, _, _, _)
ReadSetsKept(t, read_set, page_id, key, leftmost) ==
  IF page_id = INVALID_PAGE_ID THEN <<>>
  ELSE LET page == t.pages[page_id]
           pushed == Append(read_set, page_id)
           next == IF leftmost THEN ValueAt(page, 0)
                   ELSE ValueAt(page, LookupSlot(page.array_, key))
       IN <<pushed, pushed>>
            \o (IF IsLeafPage(page) \/ GetSize(page) = 0 THEN <<>>
                ELSE ReadSetsKept(t, pushed, next, key, leftmost))

\* the loop of FindLeaf (leftmost: of FindLeftMostLeaf) from page_id on:
\* ctx.read_set_ after each push_back and after each pop_front
RECURSIVE ReadSetsFrom(_, _, _, _, _)
ReadSetsFrom(t, read_set, page_id, key, leftmost) ==
  IF page_id = INVALID_PAGE_ID THEN <<>>
  ELSE LET page == t.pages[page_id]
           pushed == Append(read_set, page_id)
           popped == Tail(pushed)
           next == IF leftmost THEN ValueAt(page, 0)
                   ELSE ValueAt(page, LookupSlot(page.array_, key))
       IN <<pushed, popped>>
            \o (IF IsLeafPage(page) \/ GetSize(page) = 0 THEN <<>>
                ELSE ReadSetsFrom(t, popped, next, key, leftmost))

\* ctx.read_set_ along the whole of FindLeaf / FindLeftMostLeaf
ReadSets(t, key, leftmost) ==
  <<<<HEADER_PAGE_ID>>>>
    \o ReadSetsFrom(t, <<HEADER_PAGE_ID>>, t.root_page_id_, key, leftmost)

\* what C28 asks of one descent
CrabbedRead(t, S, leaf) ==
  /\ \A i \in DOMAIN S : Len(S[i]) \in {1, 2}
  /\ \A i \in DOMAIN S : i > 1 =>
       \* a push keeps the parent, a pop leaves the child alone
       IF i % 2 = 0 THEN Len(S[i]) = 2 /\ S[i][1] = S[i - 1][1]
       ELSE S[i] = <<S[i - 1][2]>>
  /\ S[2] = <<HEADER_PAGE_ID, t.root_page_id_>>
  /\ \A i \in DOMAIN S : i > 2 => HEADER_PAGE_ID \notin SetOf(S[i])
  /\ S[Len(S)] = <<leaf>> /\ IsLeafPage(t.pages[leaf])

\* C28: on the read descent of GetValue and of Begin a thread holds at most
\* two read guards at a time, the header among them; it latches the child
\* before it lets go of the parent, lets go of the header as soon as the
\* root is latched, and holds only the leaf when it has reached it.
C28_ReadCrabbing ==
  ~IsEmpty(tree) =>
    /\ \A key \in Keys :
         CrabbedRead(tree, ReadSets(tree, key, FALSE), FindLeaf(tree, key))
    /\ CrabbedRead(tree, ReadSets(tree, 0, TRUE), FindLeftMostLeaf(tree))

\* a tree of three levels, where a descent latches three pages in turn
C28_Witness ==
  /\ ~IsEmpty(tree)
  /\ Len(ReadSets(tree, MaxKey, FALSE)) = 7
  /\ Len(ReadSets(tree, 0, TRUE)) = 7

(***************************************************************************)
(* The guards of a write descent                                           *)
(***************************************************************************)
\* the pages from page_id down to the leaf of key
RECURSIVE PathFrom(_, _, _)
PathFrom(t, page_id, key) ==
  LET page == t.pages[page_id]
  IN IF IsLeafPage(page) \/ GetSize(page) = 0 THEN <<page_id>>
     ELSE <<page_id>> \o PathFrom(t, ValueAt(page, LookupSlot(page.array_, key)), key)

\* safe for remove: size > min_size; safe for insert: the size after one
\* more entry is still below max_size
SafeNode(page, remove_flag) ==
  IF remove_flag THEN GetSize(page) > GetMinSize(page)
  ELSE GetSize(page) + 1 < GetMaxSize(page)

\* the guards the contraction rule leaves at the leaf: the path from the
\* deepest safe page on, and the header guard when no page is safe
Contracted(t, key, remove_flag) ==
  LET path == PathFrom(t, t.root_page_id_, key)
      S == {i \in DOMAIN path : SafeNode(t.pages[path[i]], remove_flag)}
      deepest == CHOOSE i \in S : \A j \in S : j <= i
  IN IF S = {} THEN [write_set_ |-> path, header_page_ |-> TRUE]
     ELSE [write_set_ |-> SubSeq(path, deepest, Len(path)), header_page_ |-> FALSE]

\* C29: when the write descent of Insert or Remove has reached the leaf, the
\* write guards held are the chain from the deepest safe page down to the
\* leaf, the header guard among them only when no page of the path is safe;
\* a safe leaf is held alone.
C29_WriteCrabbing ==
  ~IsEmpty(tree) =>
    \A key \in Keys, remove_flag \in BOOLEAN :
      LET ctx == FindLeafMut(tree, key, remove_flag)
          held == Contracted(tree, key, remove_flag)
      IN ctx.write_set_ = held.write_set_ /\ ctx.header_page_ = held.header_page_

(***************************************************************************)
(* The root page id of the empty index.                                    *)
(***************************************************************************)
\* C24: after every completed Insert and Remove the root page id of the
\* header page is INVALID_PAGE_ID, and IsEmpty() is true, exactly when the
\* index holds no key; the Insert into the empty index makes a leaf the root,
\* and the Remove of the last key, after whatever merges and root changes,
\* sets the root page id back to INVALID_PAGE_ID.
C24_EmptyRoot ==
  /\ [](/\ ~last.hang /\ ~last.fault
        /\ (tree.root_page_id_ = INVALID_PAGE_ID) = (DOMAIN kv = {})
        /\ IsEmpty(tree) = (Found(tree) = {})
        /\ ~IsEmpty(tree) => tree.root_page_id_ \in DOMAIN tree.pages)
  /\ [][/\ IsEmpty(tree) /\ ~IsEmpty(tree')
           => /\ IsLeafPage(tree'.pages[tree'.root_page_id_])
              /\ GetSize(tree'.pages[tree'.root_page_id_]) = 1
        /\ ~IsEmpty(tree) /\ IsEmpty(tree')
           => last'.op = "Remove" /\ Cardinality(DOMAIN kv) = 1]_vars

\* the last key is removed from an index that has allocated six pages or
\* more, so that leaves were split and merged on the way
C24_Witness ==
  /\ last.op = "Remove" /\ last.ret /\ IsEmpty(tree)
  /\ tree.next_page_id_ > 6


(***************************************************************************)
(* Begin(key): the iterator at a given key.                                *)
(***************************************************************************)
\* a Begin(key) that starts at the first slot of the leaf of the key
BPlusTree_BeginFirstSlot(t, key) ==
  IF IsEmpty(t) \/ ~BPlusTree_GetValue(t, key).found
  THEN IndexIterator(t, INVALID_PAGE_ID, 0)
  ELSE IndexIterator(t, FindLeaf(t, key), 0)

\* Begin(key): End() on an empty tree and for a key GetValue does not find,
\* else the slot GetIndexByKey finds in the leaf FindLeaf descends to
BPlusTree_BeginKey(t, key) ==
  IF IsEmpty(t) \/ ~BPlusTree_GetValue(t, key).found
  THEN IndexIterator(t, INVALID_PAGE_ID, 0)
  ELSE LET page_id == FindLeaf(t, key)
           index == Leaf_GetIndexByKey(t.pages[page_id], key)
       IN IndexIterator(t, page_id, index)

\* it = Begin(key)
BeginKey(key) ==
  /\ ~iter.active
  /\ ~last.hang /\ ~last.fault
  /\ iter' = BPlusTree_BeginKey(tree, key)
  /\ visited' = IF IsEnd(iter') THEN <<>> ELSE <<iter'.res_[1]>>
  /\ last' = [NoCall EXCEPT !.op = "Begin(key)"]
  /\ UNCHANGED <<tree, kv, bpm_vars, lru_vars, disk_vars, thread_vars>>

\* a client that inserts, removes and scans from a key between the calls
NextSeek ==
  \/ \E key \in Keys : InsertRecord(key)
  \/ \E key \in Keys : Remove(key)
  \/ \E key \in Keys : BeginKey(key)
  \/ Advance
  \/ Finish

SpecSeek == InitTree /\ [][NextSeek]_vars

\* the keys of the index from key on
From(key) == {k \in DOMAIN kv : k >= key}

\* C26: Begin(key) returns an iterator at the record (key, value of key)
\* when key is in the tree, and ++ from there yields exactly the greater keys
\* in ascending order and then equals End(); Begin(key) equals End() when key
\* is not in the tree or the tree is empty.
C26_BeginAtKey ==
  /\ [](iter.active =>
         /\ visited = <<>> => IteratorEquals(iter, BPlusTree_End(tree))
         /\ visited # <<>> =>
              /\ visited[1] \in DOMAIN kv
              /\ Len(visited) <= Cardinality(From(visited[1]))
              /\ visited = SubSeq(Ascending(From(visited[1])), 1, Len(visited))
              /\ IsEnd(iter) =>
                   /\ Len(visited) = Cardinality(From(visited[1]))
                   /\ IteratorEquals(iter, BPlusTree_End(tree))
              /\ ~IsEnd(iter) =>
                   iter.res_ = <<visited[Len(visited)], kv[visited[Len(visited)]]>>)
  /\ [][\A key \in Keys :
          ~iter.active /\ BeginKey(key) =>
            /\ key \in DOMAIN kv =>
                 ~IsEnd(iter') /\ iter'.res_ = <<key, kv[key]>> /\ visited' = <<key>>
            /\ key \notin DOMAIN kv =>
                 IteratorEquals(iter', BPlusTree_End(tree)) /\ visited' = <<>>]_vars

\* a scan from the second key of a full index has crossed leaves and reached
\* End()
C26_Witness ==
  /\ iter.active /\ IsEnd(iter)
  /\ DOMAIN kv = Keys
  /\ visited = <<2, 3, 4, 5>>


(***************************************************************************)
(* The pages the index leaves behind.                                      *)
(***************************************************************************)
\* the page ids the calls on the index have passed to DeletePage: none,
\* Remove, Merge, MergeLeaf and MergeInternal hold no DeletePage call
DeletedPages(t) == {}

\* the page ids the index got from NewPage and has not deleted
TreePages(t) == (HEADER_PAGE_ID + 1 .. t.next_page_id_ - 1) \ DeletedPages(t)

\* C22: every page the tree stops pointing to (the right page of a merge, an
\* internal root replaced by its only child, the last leaf) is passed to
\* DeletePage, and once every inserted key is removed again no page the
\* index allocated is still allocated.
C22_NoPageLeak ==
  /\ [](IsEmpty(tree) => TreePages(tree) = {})
  /\ [][(Nodes(tree) \ Nodes(tree')) \subseteq DeletedPages(tree')]_vars


(***************************************************************************)
(* FlushAllPages next to the calls of another thread.  Every other call    *)
(* holds latch_ from its first line to its return and is one step;         *)
(* FlushAllPages reads pages_[i].page_id_ without latch_ and takes latch_  *)
(* in each FlushPage.                                                      *)
(***************************************************************************)
\* calls of the other thread between the call and the return of one
\* FlushAllPages
MaxOverlap == 2
\* NewPage and FetchPage calls that find a frame, in all
MaxFlushTimestamp == 3

\* FlushAllPages is called: i = 0
FlushAllPagesCall ==
  /\ flush.pc = "idle"
  /\ flush' = [pc |-> "read", i |-> 0, page_id |-> INVALID_PAGE_ID, alone |-> bpm,
               could |-> {FlushAllPages(bpm)}, n |-> 0]
  /\ UNCHANGED <<bpm_vars, trail, tree_vars, lru_vars, thread_vars>>

\* the argument pages_[i].page_id_ is read
FlushAllPagesRead ==
  /\ flush.pc = "read" /\ flush.i < PoolSize
  /\ flush' = [flush EXCEPT !.pc = "flush", !.page_id = bpm.pages_[flush.i].page_id_]
  /\ UNCHANGED <<bpm_vars, trail, tree_vars, lru_vars, thread_vars>>

\* FlushPage(page_id) runs under latch_; i++
FlushAllPagesFlush ==
  /\ flush.pc = "flush"
  /\ bpm' = FlushPage(bpm, flush.page_id).bpm
  /\ flush' = [flush EXCEPT !.pc = "read", !.i = @ + 1]
  /\ UNCHANGED <<latch, guards, raw_pins, ret, trail, tree_vars, lru_vars, thread_vars>>

\* i = pool_size_: FlushAllPages returns
FlushAllPagesReturn ==
  /\ flush.pc = "read" /\ flush.i = PoolSize
  /\ flush' = NoFlush
  /\ ret' = Result("FlushAllPages", INVALID_PAGE_ID, nullptr, TRUE, "none")
  /\ UNCHANGED <<bpm, latch, guards, raw_pins, trail, tree_vars, lru_vars, thread_vars>>

\* one thread calls FlushAllPages, another makes the other calls
NextFlush ==
  \/ FlushAllPagesCall
  \/ FlushAllPagesRead
  \/ FlushAllPagesFlush
  \/ FlushAllPagesReturn
  \/ /\ flush.n < MaxOverlap
     /\ bpm.replacer_.current_timestamp_ < MaxFlushTimestamp
     /\ ClientNewPage
  \/ \E p \in {q \in PageIds : Allocated(q)} :
       /\ flush.n < MaxOverlap
       /\ \/ bpm.replacer_.current_timestamp_ < MaxFlushTimestamp /\ ClientFetchPage(p)
          \/ \E d \in 0 .. MaxData : ClientWrite(p, d)
          \/ \E is_dirty \in BOOLEAN : ClientUnpinPage(p, is_dirty)
          \/ ClientFlushPage(p)
          \/ ClientDeletePage(p)

SpecFlush == InitBPM /\ [][NextFlush]_vars

\* C25: every call on the pool takes effect as a whole at one point between
\* its call and its return, also FlushAllPages next to the calls of another
\* thread: when FlushAllPages returns, the pool and the disk are as the flush
\* of every page resident at one point, done in one step between two calls
\* of the other thread, would have left them.
C25_AtomicCalls ==
  flush.pc = "read" /\ flush.i = PoolSize => bpm \in flush.could


(***************************************************************************)
(* The index on a pool that has no frame left.  FetchPageRead,             *)
(* FetchPageWrite and NewPage return a null guard or nullptr when every    *)
(* frame is pinned; the index tests none of these results and calls As or  *)
(* AsMut on the guard, so the call that meets a null guard does not        *)
(* return.                                                                 *)
(***************************************************************************)
\* the pool calls of the index that may find every frame pinned: the fetch
\* of the header page at the start of the call, NewPage for the first root,
\* a fetch of the descent, NewPage for the split of the leaf, the fetch of
\* the sibling in MergeLeaf
PoolCalls == {"header", "root", "descent", "split", "sibling"}

\* where the call op(key) stands when its pool call at fails: can tells
\* whether the call reaches that pool call, tree is what it has written
Exhausted(t, op, key, at) ==
  LET rooted == WithRoot(t)
      ctx == FindLeafMut(IF op = "Insert" THEN rooted ELSE t, key, op = "Remove")
      leaf_id == Back(ctx.write_set_)
      ins == Leaf_Insert(rooted.pages[leaf_id], key, key)
      removed == [t EXCEPT !.pages[leaf_id] = Leaf_Remove(@, key)]
  IN CASE at = "header" -> [can |-> TRUE, tree |-> t]
       [] at = "root" -> [can |-> op = "Insert" /\ IsEmpty(t), tree |-> t]
       [] at = "descent" ->
            [can |-> op = "Insert" \/ ~IsEmpty(t),
             tree |-> IF op = "Insert" THEN rooted ELSE t]
       [] at = "split" ->
            IF op = "Insert" /\ ins.ok /\ GetSize(ins.page) >= GetMaxSize(ins.page)
            THEN [can |-> TRUE, tree |-> [rooted EXCEPT !.pages[leaf_id] = ins.page]]
            ELSE [can |-> FALSE, tree |-> t]
       [] at = "sibling" ->
            IF /\ op = "Remove" /\ ~IsEmpty(t) /\ Present(t, key).found
               /\ GetSize(removed.pages[leaf_id]) < GetMinSize(removed.pages[leaf_id])
               /\ Back(ctx.index_).bro_page_id # INVALID_PAGE_ID
            THEN [can |-> TRUE, tree |-> removed]
            ELSE [can |-> FALSE, tree |-> t]

\* Insert(key, key), Remove(key) or GetValue(key) on a pool whose frames
\* are all pinned when the call makes its pool call at
PoolExhausted(op, key, at) ==
  LET r == Exhausted(tree, op, key, at) IN
  /\ ~iter.active
  /\ ~last.hang /\ ~last.fault
  /\ r.can
  /\ tree' = r.tree
  /\ last' = [op |-> op, ret |-> FALSE, hang |-> FALSE, fault |-> TRUE, ev |-> {at}]
  /\ UNCHANGED <<kv, iter, visited, bpm_vars, lru_vars, disk_vars, thread_vars>>

\* a client that inserts and removes, on a pool other clients may fill
NextExhaust ==
  \/ \E key \in Keys : InsertRecord(key)
  \/ \E key \in Keys : Remove(key)
  \/ \E op \in {"Insert", "Remove", "GetValue"}, key \in Keys, at \in PoolCalls :
       PoolExhausted(op, key, at)

SpecExhaust == InitTree /\ [][NextExhaust]_vars

\* C21: an Insert, Remove or GetValue that gets no frame from the pool (a
\* fetch of its descent or a NewPage of a split or of a new root returns
\* null) ends with an error, and leaves the root page id and every page of
\* the tree as they were.
C21_ExhaustionAborts ==
  [][\A op \in {"Insert", "Remove", "GetValue"}, key \in Keys, at \in PoolCalls :
       PoolExhausted(op, key, at) => ~last'.fault /\ tree' = tree]_vars


(***************************************************************************)
(* Frames, free list and page table.                                       *)
(***************************************************************************)
FreeFrames(b) == {b.free_list_[i] : i \in DOMAIN b.free_list_}
TableFrames(b) == {b.page_table_[p] : p \in DOMAIN b.page_table_}

SubtreeKeys(t, id) ==
  UNION {{KeyAt(t.pages[l], i) : i \in 0 .. GetSize(t.pages[l]) - 1} :
           l \in {n \in Subtree(t, id) : IsLeafPage(t.pages[n])}}

\* C32: after every Insert and Remove, in every internal page the key at
\* every slot i >= 1 is the smallest key stored in the subtree under slot i.
C32_SeparatorIsMinimum ==
  \A id \in Nodes(tree) :
    ~IsLeafPage(tree.pages[id]) =>
      \A i \in 1 .. GetSize(tree.pages[id]) - 1 :
        LET K == SubtreeKeys(tree, ValueAt(tree.pages[id], i))
        IN K # {} /\ \A k \in K : KeyAt(tree.pages[id], i) <= k
                  /\ KeyAt(tree.pages[id], i) \in K


\* an index with leaves of up to four entries, so that a leaf can lose its
\* smallest key and stay at its minimum size
WideSizes == {<<4, 3>>}

InitWide ==
  /\ InitPool /\ InitReplacers /\ InitTrail /\ InitThreads
  /\ \E c \in WideSizes : tree = BPlusTree_Init(c[1], c[2])
  /\ kv = <<>>
  /\ iter = NoIterator
  /\ visited = <<>>
  /\ last = NoCall

SpecWide == InitWide /\ [][NextTree]_vars


(***************************************************************************)
(* The order of the keys.                                                  *)
(***************************************************************************)
\* C33: after every Insert and Remove the keys of every page are strictly
\* increasing, in an internal page from slot 0 on, whose key is not larger
\* than any key below the page; the subtree under slot i holds only keys k
\* with key(i) <= k < key(i+1), without the lower bound at slot 0 and without
\* the upper bound at the last slot; and the search descent finds every key
\* stored in a leaf.
C33_KeyOrder ==
  /\ \A id \in Nodes(tree) :
       LET n == tree.pages[id] IN
       /\ \A i \in 0 .. GetSize(n) - 2 : KeyAt(n, i) < KeyAt(n, i + 1)
       /\ ~IsLeafPage(n) =>
            /\ \A k \in SubtreeKeys(tree, id) : KeyAt(n, 0) <= k
            /\ \A i \in 0 .. GetSize(n) - 1 :
                 \A k \in SubtreeKeys(tree, ValueAt(n, i)) :
                   /\ i >= 1 => KeyAt(n, i) <= k
                   /\ i < GetSize(n) - 1 => k < KeyAt(n, i + 1)
  /\ ~IsEmpty(tree) =>
       /\ SubtreeKeys(tree, tree.root_page_id_) = DOMAIN kv
       /\ \A k \in DOMAIN kv : BPlusTree_GetValue(tree, k).found


\* a Remove has borrowed or merged below a root whose slot-0 key is a key
\* that is no longer stored
C33_Witness ==
  /\ last.op = "Remove" /\ last.ret
  /\ Height(tree) = 2
  /\ last.ev \cap {"borrow", "merge"} # {}
  /\ KeyAt(tree.pages[tree.root_page_id_], 0) = 1
  /\ 1 \notin DOMAIN kv

(***************************************************************************)
(* The split of one full page.                                             *)
(***************************************************************************)
\* the largest leaf_max_size_ of the pages that are split
MaxSplitSize == 5
\* the keys of these pages: 1 .. MaxSplitKey
MaxSplitKey == 7

\* the array_ of a page that holds the keys K in their order, the record of
\* key k being <<k, first + k>>
FullPage(K, first) == [i \in 1 .. Cardinality(K) |-> <<Ascending(K)[i], first + Ascending(K)[i]>>]

\* a leaf that Insert has filled to leaf_max_size_, the last leaf or with the
\* leaf of page id 2 after it
InitFullLeaf ==
  \E size \in 3 .. MaxSplitSize, last_leaf \in BOOLEAN :
    \E K \in {S \in SUBSET (1 .. MaxSplitKey) : Cardinality(S) = size} :
      LET t == WithRoot(BPlusTree_Init(size, size))
          next == NewLeafPage(t)
          full == FullPage(K, 0)
      IN tree = IF last_leaf THEN [t EXCEPT !.pages[t.root_page_id_].array_ = full]
                ELSE [next.tree EXCEPT
                        !.pages[t.root_page_id_].array_ = full,
                        !.pages[t.root_page_id_].next_page_id_ = next.page_id,
                        !.pages[next.page_id].array_ = <<<<MaxSplitKey + 1, 1>>>>]

\* an internal page that Split has filled to internal_max_size_ + 1
InitFullInternal ==
  \E size \in 3 .. MaxSplitSize :
    \E K \in {S \in SUBSET (1 .. MaxSplitKey) : Cardinality(S) = size + 1} :
      LET new == NewInternalPage(BPlusTree_Init(size, size))
      IN tree = [new.tree EXCEPT !.root_page_id_ = new.page_id,
                                 !.pages[new.page_id].array_ = FullPage(K, 1)]

InitSplit ==
  /\ InitPool /\ InitReplacers /\ InitTrail /\ InitThreads
  /\ InitFullLeaf \/ InitFullInternal
  /\ kv = <<>>
  /\ iter = NoIterator
  /\ visited = <<>>
  /\ last = NoCall

\* SplitLeaf(leaf_page, split_key, split_page_id) of Split on the full leaf
SplitLeafCall ==
  /\ last.op = "none"
  /\ IsLeafPage(tree.pages[tree.root_page_id_])
  /\ tree' = SplitLeaf(tree, tree.root_page_id_).tree
  /\ last' = [NoCall EXCEPT !.op = "SplitLeaf", !.ev = {"split"}]
  /\ UNCHANGED <<kv, iter, visited, bpm_vars, lru_vars, disk_vars, thread_vars>>

\* SplitInternal(last_page, split_key, split_page_id) of Split on the full page
SplitInternalCall ==
  /\ last.op = "none"
  /\ ~IsLeafPage(tree.pages[tree.root_page_id_])
  /\ tree' = SplitInternal(tree, tree.root_page_id_).tree
  /\ last' = [NoCall EXCEPT !.op = "SplitInternal", !.ev = {"split"}]
  /\ UNCHANGED <<kv, iter, visited, bpm_vars, lru_vars, disk_vars, thread_vars>>

NextSplit == SplitLeafCall \/ SplitInternalCall

SpecSplit == InitSplit /\ [][NextSplit]_vars

\* what a split at offset does to the page old of tree: the new page is the
\* one allocated by the step
SplitsAt(offset) ==
  LET old == tree.root_page_id_
      new == tree.next_page_id_
      s == GetSize(tree.pages[old])
      promoted == IF IsLeafPage(tree.pages[old]) THEN SplitLeaf(tree, old).split_key
                  ELSE SplitInternal(tree, old).split_key
  IN /\ new \in DOMAIN tree'.pages
     /\ tree'.pages[old].array_ = SubSeq(tree.pages[old].array_, 1, offset)
     /\ tree'.pages[new].array_ = SubSeq(tree.pages[old].array_, offset + 1, s)
     /\ GetSize(tree'.pages[old]) = offset
     /\ GetSize(tree'.pages[new]) = s - offset
     /\ promoted = KeyAt(tree'.pages[new], 0)
     /\ IsLeafPage(tree.pages[old]) =>
          /\ tree'.pages[new].next_page_id_ = tree.pages[old].next_page_id_
          /\ tree'.pages[old].next_page_id_ = new

\* C34 as stated: the split of a leaf or an internal page of size s moves the
\* entries [offset, s) to the new page with offset = ceiling((s + 1) / 2),
\* leaves offset entries, promotes the first key of the new page and, for a
\* leaf, links the new leaf between the old one and its next leaf.
C34_SplitAtCeiling ==
  [][NextSplit => SplitsAt((GetSize(tree.pages[tree.root_page_id_]) + 2) \div 2)]_vars

\* C34: the split of a leaf or an internal page of size s moves the entries
\* [offset, s) to the new page with offset = floor((s + 1) / 2), the value of
\* (size + 1) >> 1: the old page keeps offset entries, the new page gets
\* s - offset, the promoted key is the first key of the new page, and for a
\* leaf new.next is the old next and old.next is the new leaf.
C34_SplitAtOffset ==
  [][NextSplit => SplitsAt((GetSize(tree.pages[tree.root_page_id_]) + 1) \div 2)]_vars

\* a leaf of four entries has been split into two leaves of two, the new one
\* linked before the leaf that followed
C34_Witness ==
  /\ last.op = "SplitLeaf"
  /\ GetSize(tree.pages[tree.root_page_id_]) = 2
  /\ GetSize(tree.pages[tree.next_page_id_ - 1]) = 2
  /\ tree.pages[tree.next_page_id_ - 1].next_page_id_ = 2
  /\ tree.pages[tree.root_page_id_].next_page_id_ = 3

(***************************************************************************)
(* The growth of a tree of leaf_max_size 3 and internal_max_size 3 that    *)
(* is given the keys 1, 2, 3, 4, 5 in this order.                          *)
(***************************************************************************)
\* the keys of the leaves of t, leaf by leaf in the order of the chain
LeafLists(t) ==
  IF IsEmpty(t) THEN <<>>
  ELSE LET chain == ChainFrom(t, FindLeftMostLeaf(t), MaxPageId)
       IN [i \in 1 .. Len(chain) - 1 |->
             [j \in 1 .. GetSize(t.pages[chain[i]]) |-> KeyAt(t.pages[chain[i]], j - 1)]]

\* the keys of the root of t after slot 0, none when the root is a leaf
Separators(t) ==
  LET root == t.pages[t.root_page_id_]
  IN IF IsLeafPage(root) THEN <<>> ELSE [i \in 1 .. GetSize(root) - 1 |-> KeyAt(root, i)]

\* the tree and the map after the keys 1 .. n have been inserted in this
\* order, the root having the keys `separators` once five keys are in
GrownTo(n, separators) ==
  /\ DOMAIN kv = 1 .. n
  /\ tree.leaf_max_size_ = 3 /\ tree.internal_max_size_ = 3
  /\ Height(tree) = (IF n = 0 THEN 0 ELSE IF n < 3 THEN 1 ELSE 2)
  /\ LeafLists(tree) = (CASE n = 0 -> <<>>
                          [] n = 1 -> <<<<1>>>>
                          [] n = 2 -> <<<<1, 2>>>>
                          [] n = 3 -> <<<<1, 2>>, <<3>>>>
                          [] n = 4 -> <<<<1, 2>>, <<3, 4>>>>
                          [] n = 5 -> <<<<1, 2>>, <<3, 4>>, <<5>>>>)
  /\ n \in {3, 4} => Separators(tree) = <<3>>
  /\ n = 5 =>
       /\ Separators(tree) = separators
       /\ GetSize(tree.pages[tree.root_page_id_]) = Len(separators) + 1
       /\ BPlusTree_GetValue(tree, 4) = [found |-> TRUE, value |-> kv[4], hang |-> FALSE]
       /\ ~BPlusTree_GetValue(tree, 6).found

\* every Insert of the key n + 1 into the tree grown to n grows it to n + 1,
\* and the tree gets one more leaf for the keys 3 and 5 only
GrowthSteps(separators) ==
  \A n \in 0 .. 4, value \in Values :
    GrownTo(n, separators) /\ Insert(n + 1, value) =>
      /\ GrownTo(n + 1, separators)'
      /\ (Len(LeafLists(tree')) > Len(LeafLists(tree)) /\ n > 0) = (n + 1 \in {3, 5})

\* C35 as stated: with leaf_max_size = 3 and internal_max_size = 3 and the
\* keys 1, 2, 3, 4, 5 inserted in order, the first leaf split happens on
\* inserting 3; after 5 the tree has height 2, the root has two children with
\* the single separator key 3, the leaves are [1,2], [3,4], [5], GetValue(4)
\* finds the record id of 4 and GetValue(6) finds nothing.
C35_TwoChildren == [][GrowthSteps(<<3>>)]_vars

\* C35: with leaf_max_size = 3 and internal_max_size = 3 and the keys 1, 2, 3,
\* 4, 5 inserted in order, the first leaf split happens on inserting 3; after
\* 5 the tree has height 2, the root has three children with the separator
\* keys 3 and 5, the leaves are [1,2], [3,4], [5], GetValue(4) finds the
\* record id of 4 and GetValue(6) finds nothing.
C35_ThreeChildren == [][GrowthSteps(<<3, 5>>)]_vars

\* the key 5 has just been inserted after 1, 2, 3, 4
C35_Witness == last.op = "Insert" /\ last.ret /\ GrownTo(5, <<3, 5>>)

(***************************************************************************)
(* The writes of the root page id.                                         *)
(***************************************************************************)
\* thread t holds the write latch of the header page during its next step:
\* its Context has the header guard of its descent and nobody else has a
\* latch on the page, or the step is the block of Insert that runs under a
\* header guard of its own
HeaderWriteLatched(t) ==
  \/ /\ threads[t].header_page_
     /\ \A u \in Threads \ {t} :
          HEADER_PAGE_ID \notin WriteHeld(threads[u]) \cup ReadHeld(threads[u])
  \/ threads[t].pc = "Insert" /\ Granted(t)

\* thread t is at a use of the header guard that its descent has dropped
HeaderGuardGone(t) ==
  /\ threads[t].pc = "undefined"
  /\ threads[t].write_set_ # <<>>
  /\ ~threads[t].header_page_

\* C36: the root page id in the header page is written only by a thread that
\* holds the write latch of the header page, and no Split or Merge comes to
\* install a root page id (root split, root collapse, tree emptied) after
\* the header guard of its descent was dropped.
C36_RootUnderHeaderLatch ==
  /\ [](\A t \in Threads : ~HeaderGuardGone(t))
  /\ [][tree'.root_page_id_ # tree.root_page_id_ =>
          \E t \in Threads : threads'[t] # threads[t] /\ HeaderWriteLatched(t)]_vars

\* a Remove has returned after the collapse of a root that an Insert had
\* installed by a root split, while another thread is inside a call
C36_Witness ==
  \E t, u \in Threads :
    /\ threads[t].op = "Remove" /\ threads[t].pc = "idle" /\ threads[t].ret
    /\ threads[u].pc \notin {"idle", "crashed"}
    /\ Height(tree) = 1
    /\ tree.next_page_id_ > 3
    /\ tree.root_page_id_ \in {1, 2}

(***************************************************************************)
(* The root a descent finds after the check that went before it.           *)
(***************************************************************************)
\* thread t starts a descent with its next step: it has seen a root in
\* IsEmpty, found its key with GetValue or gone through the first block of
\* Insert, and now takes the header guard of FindLeaf or FindLeafMut
StartsDescent(t) ==
  /\ threads[t].pc \in {"FindLeaf", "FindLeafMut"}
  /\ threads'[t] # threads[t]

\* C37: however Insert, Remove and GetValue of several threads interleave, a
\* descent that starts after the emptiness check (or after Insert's block that
\* creates the root) finds a root page id other than INVALID_PAGE_ID, so that
\* the write descent of Insert and Remove ends with the write guard of a leaf
\* at the back of write_set_ and the read descent of GetValue with the read
\* guard of a leaf at the back of read_set_.
C37_DescentEndsAtLeaf ==
  /\ [](\A t \in Threads : threads[t].pc = "undefined" => threads[t].write_set_ # <<>>)
  /\ [][\A t \in Threads : StartsDescent(t) => ~IsEmpty(tree)]_vars

(***************************************************************************)
(* The levels of the tree.                                                 *)
(***************************************************************************)
RECURSIVE LeafDepths(_, _, _)
\* the depths, counted from depth at page id, of the leaves the pointers of
\* page id lead to; 0 stands for a pointer to no page of the tree
LeafDepths(t, id, depth) ==
  IF id \notin DOMAIN t.pages THEN {0}
  ELSE IF IsLeafPage(t.pages[id]) THEN {depth}
  ELSE UNION {LeafDepths(t, ValueAt(t.pages[id], i), depth + 1) :
                i \in 0 .. GetSize(t.pages[id]) - 1}

\* the page ids in the slots of page id
Children(t, id) == {ValueAt(t.pages[id], i) : i \in 0 .. GetSize(t.pages[id]) - 1}

\* every leaf is Height(t) pages below the header page, and every pointer of
\* an internal page leads to a page of the tree that holds a record
Levelled(t) ==
  ~IsEmpty(t) =>
    /\ LeafDepths(t, t.root_page_id_, 1) = {Height(t)}
    /\ \A id \in Nodes(t) : ~IsLeafPage(t.pages[id]) =>
         /\ GetSize(t.pages[id]) > 0
         /\ \A c \in Children(t, id) : c \in DOMAIN t.pages /\ GetSize(t.pages[c]) > 0

\* the new root of a root split: a new internal page whose two slots hold the
\* old root and one more page
RootSplit ==
  /\ tree'.root_page_id_ >= tree.next_page_id_
  /\ ~IsLeafPage(tree'.pages[tree'.root_page_id_])
  /\ GetSize(tree'.pages[tree'.root_page_id_]) = 2
  /\ tree.root_page_id_ \in Children(tree', tree'.root_page_id_)

\* the new root of a root collapse: a page one level below the old root
RootCollapse ==
  /\ ~IsLeafPage(tree.pages[tree.root_page_id_])
  /\ tree'.root_page_id_ \in Children(tree, tree.root_page_id_)

HoldsLatch(g) ==
  /\ guards[g].page_ # nullptr
  /\ guards[g].kind \in {"read", "write"}
  /\ guards[g].pc \in {"idle", "unlatching"}

\* C40: while a read or write guard holds the latch of a frame, the pin
\* count of the frame is at least 1, and no call evicts the page of the
\* frame, resets the frame or reads another page into it.
C40_LatchedFramePinned ==
  /\ [](\A g \in GuardIds :
          HoldsLatch(g) => bpm.pages_[guards[g].page_].pin_count_ >= 1)
  /\ [][\A g \in GuardIds :
          HoldsLatch(g) =>
            bpm'.pages_[guards[g].page_].page_id_ = bpm.pages_[guards[g].page_].page_id_]_vars

(***************************************************************************)
(* The pool calls of the index.  A call of the index is the sequence of    *)
(* the calls <<name, page id>> it makes on the buffer pool, the drops of   *)
(* its guards included; the pool counts the pins and the latches of every  *)
(* page: [pin_count_, readers, writer, blocked], blocked telling that a    *)
(* latch was asked for that the caller itself keeps taken.                 *)
(***************************************************************************)
\* the pool with no page pinned or latched
NoPins(t) ==
  [pin_count_ |-> [q \in 0 .. t.next_page_id_ + 2 |-> 0],
   readers |-> [q \in 0 .. t.next_page_id_ + 2 |-> 0],
   writer |-> [q \in 0 .. t.next_page_id_ + 2 |-> FALSE],
   blocked |-> FALSE]

\* the pool after one call: NewPage and FetchPage pin, FetchPageRead and
\* FetchPageWrite latch after the pin, UnpinPage takes a pin off a pinned
\* page, the Drop of a guard unpins and releases the latch
PoolCall(pool, call) ==
  LET p == call[2]
      Unpinned == IF pool.pin_count_[p] = 0 THEN pool
                  ELSE [pool EXCEPT !.pin_count_[p] = @ - 1]
  IN
  CASE call[1] = "NewPage" -> [pool EXCEPT !.pin_count_[p] = 1]
    [] call[1] = "FetchPageRead" ->
         [pool EXCEPT !.pin_count_[p] = @ + 1, !.readers[p] = @ + 1,
                      !.blocked = @ \/ pool.writer[p]]
    [] call[1] = "FetchPageWrite" ->
         [pool EXCEPT !.pin_count_[p] = @ + 1, !.writer[p] = TRUE,
                      !.blocked = @ \/ pool.writer[p] \/ pool.readers[p] > 0]
    [] call[1] = "UnpinPage" -> Unpinned
    [] call[1] = "ReadPageGuard::Drop" -> [Unpinned EXCEPT !.readers[p] = @ - 1]
    [] call[1] = "WritePageGuard::Drop" -> [Unpinned EXCEPT !.writer[p] = FALSE]

RECURSIVE PoolAfter(_, _)
\* the pool after the calls, one after the other
PoolAfter(pool, calls) ==
  IF calls = <<>> THEN pool ELSE PoolAfter(PoolCall(pool, Head(calls)), Tail(calls))

\* the write guards of write_set go out of scope
Dropped(write_set) == [i \in DOMAIN write_set |-> <<"WritePageGuard::Drop", write_set[i]>>]

\* NewLeafPage / NewInternalPage: NewPage, and a write guard on the new page
\* for Init that is dropped at the return
NewPageCalls(page_id) ==
  <<<<"NewPage", page_id>>, <<"FetchPageWrite", page_id>>, <<"WritePageGuard::Drop", page_id>>>>

\* a split that leaves the pin of NewPage on the new page
SplitPageCallsPinned(page_id) ==
  NewPageCalls(page_id)
    \o <<<<"FetchPageWrite", page_id>>, <<"WritePageGuard::Drop", page_id>>>>

\* SplitLeaf / SplitInternal / the new root of Split: the new page, a write
\* guard on it, UnpinPage for the pin of NewPage, and the guard goes out of
\* scope
SplitPageCalls(page_id) ==
  NewPageCalls(page_id)
    \o <<<<"FetchPageWrite", page_id>>, <<"UnpinPage", page_id>>,
         <<"WritePageGuard::Drop", page_id>>>>

RECURSIVE FindLeafCalls(_, _, _, _, _)
\* the loop of FindLeaf (leftmost: of FindLeftMostLeaf) from page_id on, front
\* being the guard in read_set_: fetch, push_back, pop_front
FindLeafCalls(t, page_id, front, key, leftmost) ==
  LET page == t.pages[page_id]
      next == IF leftmost THEN ValueAt(page, 0) ELSE ValueAt(page, LookupSlot(page.array_, key))
  IN <<<<"FetchPageRead", page_id>>, <<"ReadPageGuard::Drop", front>>>>
       \o (IF IsLeafPage(page) \/ GetSize(page) = 0 THEN <<>>
           ELSE FindLeafCalls(t, next, page_id, key, leftmost))

RECURSIVE FindLeafMutCalls(_, _, _, _, _, _)
\* the loop of FindLeafMut from page_id on: fetch and push_back, and above a
\* safe internal page the Drop of the header guard and the pop_front of every
\* guard but the last
FindLeafMutCalls(t, page_id, key, remove_flag, write_set, header_page) ==
  LET page == t.pages[page_id]
      size == GetSize(page)
      safe == IF remove_flag THEN size > GetMinSize(page) ELSE size + 1 < GetMaxSize(page)
      id == LookupSlot(page.array_, key)
  IN <<<<"FetchPageWrite", page_id>>>>
       \o (IF IsLeafPage(page) \/ size = 0 THEN <<>>
           ELSE (IF safe /\ header_page THEN <<<<"WritePageGuard::Drop", HEADER_PAGE_ID>>>>
                 ELSE <<>>)
                \o (IF safe THEN Dropped(write_set) ELSE <<>>)
                \o FindLeafMutCalls(t, ValueAt(page, id), key, remove_flag,
                                    IF safe THEN <<page_id>> ELSE Append(write_set, page_id),
                                    header_page /\ ~safe))

RECURSIVE SplitUpCalls(_, _, _, _)
\* the while loop of Split and the new root after it; a return leaves the
\* guards of write_set to the destructor of the Context
SplitUpCalls(t, write_set, split_key, split_page_id) ==
  IF write_set = <<>> THEN SplitPageCalls(t.next_page_id_)
  ELSE
    LET id == Back(write_set)
        last_page == Internal_Insert(t.pages[id], split_key, split_page_id)
        split == SplitInternal([t EXCEPT !.pages[id] = last_page], id)
    IN IF GetSize(last_page) < GetMaxSize(last_page) THEN Dropped(write_set)
       ELSE SplitPageCalls(split.split_page_id)
              \o <<<<"WritePageGuard::Drop", id>>>>
              \o SplitUpCalls(split.tree, PopBack(write_set), split.split_key,
                              split.split_page_id)

\* Split(insert_key, ctx) on the tree t whose pages are those of ctx
SplitCalls(t, ctx) ==
  LET leaf_id == Back(ctx.write_set_)
      split == SplitLeaf(t, leaf_id)
  IN IF GetSize(t.pages[leaf_id]) < GetMaxSize(t.pages[leaf_id]) THEN Dropped(ctx.write_set_)
     ELSE SplitPageCalls(split.split_page_id)
            \o <<<<"WritePageGuard::Drop", leaf_id>>>>
            \o SplitUpCalls(split.tree, PopBack(ctx.write_set_), split.split_key,
                            split.split_page_id)

\* MergeLeaf and MergeInternal: the write guard on the sibling lives to the
\* end of its block, then the page is popped off the write set
SiblingCalls(hint, page_id) ==
  (IF hint.bro_page_id # INVALID_PAGE_ID
   THEN <<<<"FetchPageWrite", hint.bro_page_id>>, <<"WritePageGuard::Drop", hint.bro_page_id>>>>
   ELSE <<>>)
    \o <<<<"WritePageGuard::Drop", page_id>>>>

RECURSIVE MergeUpCalls(_, _, _, _, _)
\* the while loop of Merge
MergeUpCalls(t, write_set, index, insert_record, delete_record) ==
  IF write_set = <<>> THEN <<>>
  ELSE
    LET id == Back(write_set)
        last_page == Internal_InsertAll(Internal_RemoveAll(t.pages[id], delete_record),
                                        insert_record)
        mi == MergeInternal([t EXCEPT !.pages[id] = last_page], id, Back(index),
                            insert_record, delete_record)
    IN IF GetSize(last_page) >= GetMinSize(last_page) THEN Dropped(write_set)
       ELSE SiblingCalls(Back(index), id)
              \o MergeUpCalls(mi.tree, PopBack(write_set), PopBack(index),
                              mi.insert_record, mi.delete_record)

\* Merge(ctx) on the tree t
MergeCalls(t, ctx) ==
  LET ml == MergeLeaf(t, ctx)
  IN IF ml.done THEN Dropped(ctx.write_set_)
     ELSE SiblingCalls(Back(ctx.index_), Back(ctx.write_set_))
            \o MergeUpCalls(ml.tree, ml.write_set_, ml.index_, ml.insert_record,
                            ml.delete_record)

\* the calls of a whole call of the index: Insert(key, value), Remove(key),
\* GetValue(key), Begin() and operator++ of the iterator it.  IsEmpty() is
\* GetRootPageId() under a read guard of its own; GetValue is IsEmpty,
\* FindLeaf and the end of its Context
IndexCalls(t, op, key, value, it) ==
  LET rooted == WithRoot(t)
      remove_flag == op = "Remove"
      from == IF remove_flag THEN t ELSE rooted
      ctx == FindLeafMut(from, key, remove_flag)
      found == [from EXCEPT !.pages = ctx.pages]
      leaf_id == Back(ctx.write_set_)
      ins == Leaf_Insert(found.pages[leaf_id], key, value)
      descent == <<<<"FetchPageWrite", HEADER_PAGE_ID>>>>
                   \o FindLeafMutCalls(from, from.root_page_id_, key, remove_flag, <<>>, TRUE)
      header == IF ctx.header_page_ THEN <<<<"WritePageGuard::Drop", HEADER_PAGE_ID>>>>
                ELSE <<>>
      leftmost == FindLeftMostLeaf(t)
      next_page_id == t.pages[it.page_id_].next_page_id_
      IsEmptyCalls == <<<<"FetchPageRead", HEADER_PAGE_ID>>,
                        <<"ReadPageGuard::Drop", HEADER_PAGE_ID>>>>
      GetValueCalls ==
        IsEmptyCalls
          \o (IF IsEmpty(t) THEN <<>>
              ELSE <<<<"FetchPageRead", HEADER_PAGE_ID>>>>
                     \o FindLeafCalls(t, t.root_page_id_, HEADER_PAGE_ID, key, FALSE)
                     \o <<<<"ReadPageGuard::Drop", FindLeaf(t, key)>>>>)
  IN CASE op = "GetValue" -> GetValueCalls
       [] op = "Insert" ->
            <<<<"FetchPageWrite", HEADER_PAGE_ID>>>>
              \o (IF IsEmpty(t)
                  THEN NewPageCalls(t.next_page_id_) \o <<<<"UnpinPage", t.next_page_id_>>>>
                  ELSE <<>>)
              \o <<<<"WritePageGuard::Drop", HEADER_PAGE_ID>>>>
              \o descent
              \o (IF ~ins.ok THEN Dropped(ctx.write_set_)
                  ELSE SplitCalls([found EXCEPT !.pages[leaf_id] = ins.page], ctx))
              \o header
       [] op = "Remove" ->
            IsEmptyCalls
              \o (IF IsEmpty(t) THEN <<>>
                  ELSE GetValueCalls
                         \o (IF ~Present(t, key).found THEN <<>>
                             ELSE descent
                                    \o MergeCalls([t EXCEPT !.pages[leaf_id] =
                                                     Leaf_Remove(@, key)], ctx)
                                    \o header))
       [] op = "Begin" ->
            IsEmptyCalls
              \o (IF IsEmpty(t) THEN <<>>
                  ELSE <<<<"FetchPageRead", HEADER_PAGE_ID>>>>
                         \o FindLeafCalls(t, t.root_page_id_, HEADER_PAGE_ID, key, TRUE)
                         \o <<<<"FetchPageRead", leftmost>>, <<"ReadPageGuard::Drop", leftmost>>,
                              <<"ReadPageGuard::Drop", leftmost>>>>)
       [] op = "++" ->
            <<<<"FetchPageRead", it.page_id_>>>>
              \o (IF it.index_ >= GetSize(t.pages[it.page_id_]) - 1
                     /\ next_page_id # INVALID_PAGE_ID
                  THEN <<<<"FetchPageRead", next_page_id>>,
                         <<"ReadPageGuard::Drop", next_page_id>>>>
                  ELSE <<>>)
              \o <<<<"ReadPageGuard::Drop", it.page_id_>>>>

\* the calls the client may make in the state: op(key) with the record id
\* key, ++ on its iterator when that is not at End()
MayCall(op, key) ==
  \/ op \in {"GetValue", "Insert", "Remove", "Begin"}
  \/ op = "++" /\ iter.active /\ ~IsEnd(iter)

\* C39: with one thread, after every GetValue, Insert, Remove, Begin and
\* operator++ every page has pin count 0 and no latch of a page is held, the
\* header page and the pages allocated for a first root, a split sibling and
\* a new root included; no call asks for a latch it holds itself.
C39_PinsAndLatchesReturned ==
  \A op \in {"GetValue", "Insert", "Remove", "Begin", "++"}, key \in Keys :
    MayCall(op, key) =>
      PoolAfter(NoPins(tree), IndexCalls(tree, op, key, key, iter)) = NoPins(tree)

\* an Insert has returned, and the Insert of some new key now splits a leaf
\* and the root above it: it allocates two siblings and a new root
C39_Witness ==
  /\ last.op = "Insert" /\ last.ret
  /\ \E key \in Keys \ DOMAIN kv :
       LET calls == IndexCalls(tree, "Insert", key, key, iter)
       IN /\ Cardinality({i \in DOMAIN calls : calls[i][1] = "NewPage"}) = 3
          /\ PoolAfter(NoPins(tree), calls) = NoPins(tree)

====
